---- MODULE Spec2Model ----
(***************************************************************************)
(* A7680C GPS tracker sketch (a7680c_gps_pico.ino) as a state machine.     *)
(*                                                                         *)
(* Text is a sequence of one-character strings, so that indexOf,           *)
(* substring and trim work on characters as Arduino's String does.         *)
(* A float is kept exactly, as sign, whole part and millionths; a          *)
(* converted coordinate as sign, whole degrees and a numerator over        *)
(* 60 000 000 (one unit = one millionth of a minute).  The rounding of the *)
(* 32-bit float is not part of the model.                                  *)
(***************************************************************************)
EXTENDS Integers, Sequences, FiniteSets, TLC

VARIABLES
  \* ---- the board ----
  now,        \* millis(): the unsigned 32-bit millisecond clock
  rx,         \* MODULE_SERIAL's receive buffer: the bytes not yet read
  \* ---- the sketch's globals ----
  moduleReady, smsSentBoot, smsSentStart, smsSentFix, httpInitialized,
  attempt, fixCount,
  lastPollTime, lastHttpPostTime,   \* long, kept as its 32 bits
  retryCount, lastRetryTime,        \* the statics of tryWakeModule
  \* ---- what the run has done so far (not program state) ----
  probes,     \* how many liveness probes have been sent
  smsCalls,   \* how often sendSMS was called, per notification
  cooldown,   \* whether the retry counter was reset and no probe followed, and when
  lastTick,   \* the last poll tick: its fix, its satellite count, what it called
  lastPass,   \* the last pass of loop(): what it wrote, whether it pulsed PWRKEY
  \* ---- sendAT ----
  atPc,       \* "idle" | "call" | "loop" | "done"
  atTimeout,  \* the timeout argument
  atStart,    \* start
  atLastByte, \* lastByteTime
  atResp,     \* response, as accumulated
  atResult,   \* the returned (trimmed) text
  atBursts,   \* how many bursts the modem has sent during this call
  atEmitAt,   \* when the modem last put bytes on the line
  atStale,    \* the bytes that were unread when sendAT was invoked
  atCmd,      \* command: what the call writes to the link
  \* ---- httpPost, step 6: the wait for the +HTTPACTION result ----
  hpPc,       \* "idle" | "enter" | "wait" | "done"
  hpStart,    \* start
  actionResp, \* actionResp, as accumulated
  hpResult,   \* what httpPost returned
  hpStatus,   \* the status the modem reports (0: it reports nothing)
  hpUrc,      \* the bytes of the result the modem has yet to send
  \* ---- one call of initHTTP or httpPost, command by command ----
  hcFn,       \* "initHTTP" | "httpPost" | "" (no call)
  hcPc,       \* where the call is: "call", its steps, "done"
  hcLog,      \* what the call has written to the link
  hcReplies,  \* what the call has read in answer to each thing written
  hcRet,      \* what the call returned
  \* ---- parseCgpsInfo harness ----
  gen,        \* what the modem puts into the +CGPSINFO response
  gpsRaw,     \* the response text handed to parseCgpsInfo
  gps,        \* the GpsData it returned
  parsePc,    \* "input" | "parsed"
  \* ---- getSatelliteCount harness ----
  satGen,     \* what the modem puts into the +CGNSSINFO response
  satRaw,     \* the response text
  satCount,   \* the returned count
  satPc,      \* "input" | "parsed"
  \* one call of sendSMS
  smPc,       \* "idle" | "call" | "cmgs" | "body" | "wait" | "done"
  smLog,      \* what the call has written to the link, and when
  smCmgf,     \* the modem's answer to AT+CMGF=1
  smPrompt,   \* whether the modem sends its "> " prompt within the 2 s
  smOut,      \* what the modem has yet to send after the message
  smStart,    \* start, of the wait for the result
  smResp,     \* resp, of the wait for the result
  smRet       \* the value returned

parseVars == <<gen, gpsRaw, gps, parsePc>>
satVars == <<satGen, satRaw, satCount, satPc>>
atVars == <<atPc, atTimeout, atStart, atLastByte, atResp, atResult, atBursts,
            atEmitAt, atStale, atCmd>>
hpVars == <<hpPc, hpStart, actionResp, hpResult, hpStatus, hpUrc>>
hcVars == <<hcFn, hcPc, hcLog, hcReplies, hcRet>>
smVars == <<smPc, smLog, smCmgf, smPrompt, smOut, smStart, smResp, smRet>>
boardVars == <<now, rx>>
sketchVars == <<moduleReady, smsSentBoot, smsSentStart, smsSentFix,
                httpInitialized, attempt, fixCount, lastPollTime,
                lastHttpPostTime, retryCount, lastRetryTime>>
runVars == <<probes, smsCalls, cooldown, lastTick, lastPass>>
vars == <<boardVars, sketchVars, runVars, atVars, hpVars, hcVars, smVars,
          parseVars, satVars>>

(***************************************************************************)
(* unsigned long: 32 bits, kept as two 16-bit halves                       *)
(***************************************************************************)
Half == 256 * 256

U32(n) == [hi |-> n \div Half, lo |-> n % Half]

\* a + n modulo 2^32, for a natural n below 2^31
U32Add(a, n) ==
  LET lo == a.lo + (n % Half)
      hi == a.hi + (n \div Half) + (lo \div Half)
  IN [hi |-> hi % Half, lo |-> lo % Half]

\* a - b modulo 2^32
U32Sub(a, b) ==
  LET borrow == IF a.lo < b.lo THEN 1 ELSE 0
  IN [hi |-> (a.hi + Half - b.hi - borrow) % Half,
      lo |-> (a.lo + Half - b.lo) % Half]

U32Less(a, b) == a.hi < b.hi \/ (a.hi = b.hi /\ a.lo < b.lo)

\* (unsigned long) of the negative long -n
U32Minus(n) == U32Sub(U32(0), U32(n))

(***************************************************************************)
(* Arduino String helpers                                                  *)
(***************************************************************************)
Min(a, b) == IF a < b THEN a ELSE b

\* String::indexOf(pat, from): 0-based index of the first match, or -1
indexOfFrom(s, pat, from) ==
  LET hits == {i \in from..(Len(s) - Len(pat)) :
                 \A k \in 1..Len(pat) : s[i + k] = pat[k]}
  IN IF hits = {} THEN -1 ELSE CHOOSE i \in hits : \A j \in hits : i <= j

indexOf(s, pat) == indexOfFrom(s, pat, 0)

\* String::substring(left, right): characters left..right-1 (0-based)
substring(s, left, right) ==
  LET r == Min(right, Len(s))
  IN IF left >= Len(s) \/ left >= r THEN <<>> ELSE SubSeq(s, left + 1, r)

substringFrom(s, left) == substring(s, left, Len(s))

isspace(c) == c \in {" ", "\t", "\n", "\r", "\f"}

\* String::trim(): drops leading and trailing whitespace
trim(s) ==
  LET keep == {i \in 1..Len(s) : ~isspace(s[i])}
  IN IF keep = {} THEN <<>>
     ELSE SubSeq(s, CHOOSE i \in keep : \A j \in keep : i <= j,
                    CHOOSE i \in keep : \A j \in keep : i >= j)

isdigit(c) == c \in {"0", "1", "2", "3", "4", "5", "6", "7", "8", "9"}

DigitVal(c) ==
  CASE c = "0" -> 0 [] c = "1" -> 1 [] c = "2" -> 2 [] c = "3" -> 3
    [] c = "4" -> 4 [] c = "5" -> 5 [] c = "6" -> 6 [] c = "7" -> 7
    [] c = "8" -> 8 [] c = "9" -> 9

\* the value of the leading run of digits of s from position i (1-based)
RECURSIVE DigitRun(_, _, _)
DigitRun(s, i, acc) ==
  IF i > Len(s) \/ ~isdigit(s[i]) THEN [val |-> acc, next |-> i]
  ELSE DigitRun(s, i + 1, acc * 10 + DigitVal(s[i]))

\* String::toInt() (atol): optional sign, then digits; 0 when there are none
toInt(s) ==
  LET neg == Len(s) > 0 /\ s[1] = "-"
      first == IF Len(s) > 0 /\ s[1] \in {"-", "+"} THEN 2 ELSE 1
      run == DigitRun(s, first, 0)
  IN IF neg THEN 0 - run.val ELSE run.val

\* the first MicroDigits digits after the point, as millionths
RECURSIVE FracRun(_, _, _, _)
FracRun(s, i, acc, scale) ==
  IF i > Len(s) \/ ~isdigit(s[i]) \/ scale = 0 THEN acc
  ELSE FracRun(s, i + 1, acc + DigitVal(s[i]) * scale, scale \div 10)

\* String::toFloat() (atof): optional sign, digits, optional point and
\* digits; 0 when the text does not start with a number
toFloat(s) ==
  LET neg == Len(s) > 0 /\ s[1] = "-"
      first == IF Len(s) > 0 /\ s[1] \in {"-", "+"} THEN 2 ELSE 1
      run == DigitRun(s, first, 0)
      hasPoint == run.next <= Len(s) /\ s[run.next] = "."
      micro == IF hasPoint THEN FracRun(s, run.next + 1, 0, 100000) ELSE 0
      none == run.next = first /\ (~hasPoint \/ run.next + 1 > Len(s)
                                   \/ ~isdigit(s[run.next + 1]))
  IN IF none THEN [neg |-> FALSE, int |-> 0, micro |-> 0]
     ELSE [neg |-> neg, int |-> run.val, micro |-> micro]

FloatZero == [neg |-> FALSE, int |-> 0, micro |-> 0]

(***************************************************************************)
(* parseCgpsInfo                                                           *)
(***************************************************************************)
CGPSINFO == <<"+", "C", "G", "P", "S", "I", "N", "F", "O", ":">>

\* the field-splitting loop shared by parseCgpsInfo and getSatelliteCount:
\* i runs over 0..length while fewer than maxFields fields are stored
RECURSIVE SplitFields(_, _, _, _, _)
SplitFields(payload, i, prev, fields, maxFields) ==
  IF i > Len(payload) \/ Len(fields) >= maxFields THEN fields
  ELSE IF i = Len(payload) \/ payload[i + 1] = ","
       THEN SplitFields(payload, i + 1, i + 1,
                        Append(fields, trim(substring(payload, prev, i))),
                        maxFields)
       ELSE SplitFields(payload, i + 1, prev, fields, maxFields)

\* GpsData data = {0, 0, 0, 0, 0, "", "", false}
DegZero == [neg |-> FALSE, deg |-> 0, num |-> 0]

EmptyGpsData ==
  [latitude |-> DegZero, longitude |-> DegZero, altitude |-> FloatZero,
   speedKnots |-> FloatZero, course |-> FloatZero,
   date |-> <<>>, utcTime |-> <<>>, valid |-> FALSE]

\* ToDecimalDegrees taking the minutes for hundredths of a degree
ToDecimalDegreesHundredths(rawVal) ==
  LET deg == rawVal.int \div 100
      minMicro == (rawVal.int - deg * 100) * 1000000 + rawVal.micro
  IN [neg |-> rawVal.neg, deg |-> deg, num |-> (minMicro \div 100) * 60]

\* deg = (int)(raw / 100); deg + (raw - deg * 100) / 60.0
\* (the cast truncates towards zero, so the sign carries over)
ToDecimalDegrees(rawVal) ==
  LET deg == rawVal.int \div 100
      minMicro == (rawVal.int - deg * 100) * 1000000 + rawVal.micro
  IN [neg |-> rawVal.neg,
      deg |-> deg + (minMicro \div 60000000),
      num |-> minMicro % 60000000]

Negate(d) == [d EXCEPT !.neg = ~d.neg]

\* latitudeOf with the hemisphere test inverted
latitudeOfNorthNegated(fields) ==
  LET lat == ToDecimalDegrees(toFloat(fields[1]))
  IN IF fields[2] = <<"N">> THEN Negate(lat) ELSE lat

\* fixRejected without the test of the first field
fixRejectedByCountOnly(fields) == Len(fields) < 9

latitudeOf(fields) ==
  LET lat == ToDecimalDegrees(toFloat(fields[1]))
  IN IF fields[2] = <<"S">> THEN Negate(lat) ELSE lat

longitudeOf(fields) ==
  LET lon == ToDecimalDegrees(toFloat(fields[3]))
  IN IF fields[4] = <<"W">> THEN Negate(lon) ELSE lon

\* fieldCount < 9 || fields[0].length() == 0
fixRejected(fields) == Len(fields) < 9 \/ Len(fields[1]) = 0

cgpsPayload(raw, start) ==
  LET rest == substringFrom(raw, start + 10)
      lineEnd == indexOf(rest, <<"\n">>)
  IN trim(IF lineEnd # -1 THEN substring(rest, 0, lineEnd) ELSE rest)

parseCgpsInfo(raw) ==
  LET start == indexOf(raw, CGPSINFO)
  IN IF start = -1 THEN EmptyGpsData
     ELSE LET fields == SplitFields(cgpsPayload(raw, start), 0, 0, <<>>, 9)
          IN IF fixRejected(fields) THEN EmptyGpsData
             ELSE [latitude |-> latitudeOf(fields),
                   longitude |-> longitudeOf(fields),
                   altitude |-> toFloat(fields[7]),
                   speedKnots |-> toFloat(fields[8]),
                   course |-> toFloat(fields[9]),
                   date |-> fields[5], utcTime |-> fields[6],
                   valid |-> TRUE]

(***************************************************************************)
(* getSatelliteCount (the part after sendAT has returned the response)     *)
(***************************************************************************)
CGNSSINFO == <<"+", "C", "G", "N", "S", "S", "I", "N", "F", "O", ":">>

\* satelliteCountOf without the test of field 0
satelliteCountOfField1Only(fields) ==
  IF Len(fields) < 2 THEN -1
  ELSE IF Len(fields[2]) = 0 THEN 0
  ELSE toInt(fields[2])

satelliteCountOf(fields) ==
  IF Len(fields) < 2 THEN -1
  ELSE IF Len(fields[1]) = 0 THEN 0
  ELSE IF Len(fields[2]) = 0 THEN 0
  ELSE toInt(fields[2])

getSatelliteCountOf(raw) ==
  LET idx == indexOf(raw, CGNSSINFO)
  IN IF idx = -1 THEN -1
     ELSE satelliteCountOf(
            SplitFields(trim(substringFrom(raw, idx + 11)), 0, 0, <<>>, 6))

(***************************************************************************)
(* Responses of the modem, as text                                         *)
(***************************************************************************)
CRLF == <<"\r", "\n">>
OkTrailer == <<"\r", "\n", "\r", "\n", "O", "K", "\r", "\n">>
EchoCgpsInfo ==
  <<"A", "T", "+", "C", "G", "P", "S", "I", "N", "F", "O", "\r", "\r", "\n">>
EchoCgnssInfo ==
  <<"A", "T", "+", "C", "G", "N", "S", "S", "I", "N", "F", "O", "\r", "\r", "\n">>

DigitChar(d) == <<"0", "1", "2", "3", "4", "5", "6", "7", "8", "9">>[d + 1]

\* n in decimal, zero-padded to width digits
RECURSIVE Decimal(_, _)
Decimal(n, width) ==
  IF width = 0 THEN <<>>
  ELSE Append(Decimal(n \div 10, width - 1), DigitChar(n % 10))

\* a coordinate as the modem prints it: degrees, two minute digits, a point
\* and six digits of minute fraction (ddmm.mmmmmm / dddmm.mmmmmm)
CoordText(c, degDigits) ==
  Decimal(c.d, degDigits) \o Decimal(c.m, 2) \o <<".">> \o Decimal(c.u, 6)

\* the first n of the fields, separated by commas, with a line break put
\* after field number cut when 0 < cut < n
RECURSIVE JoinFields(_, _, _)
JoinFields(fields, n, cut) ==
  IF n = 0 THEN <<>>
  ELSE IF n = 1 THEN fields[1]
  ELSE JoinFields(fields, n - 1, cut)
         \o (IF cut = n - 1 THEN CRLF ELSE <<>>) \o <<",">> \o fields[n]

NoCoord == [d |-> -1, m |-> -1, u |-> -1]

LatCoords ==
  {[d |-> 10, m |-> 15, u |-> 471638], [d |-> 0, m |-> 0, u |-> 0],
   [d |-> 89, m |-> 59, u |-> 999999], [d |-> 7, m |-> 0, u |-> 500000]}
LonCoords ==
  {[d |-> 123, m |-> 44, u |-> 234064], [d |-> 0, m |-> 5, u |-> 1],
   [d |-> 179, m |-> 59, u |-> 999999]}

LatInputs ==
  {[coord |-> c, text |-> CoordText(c, 2)] : c \in LatCoords}
    \cup {[coord |-> NoCoord, text |-> t] : t \in {<<>>, <<" ">>}}
LonInputs ==
  {[coord |-> c, text |-> CoordText(c, 3)] : c \in LonCoords}
    \cup {[coord |-> NoCoord, text |-> <<>>]}

NsInputs == {<<"N">>, <<"S">>, <<"s">>, <<>>}
EwInputs == {<<"E">>, <<"W">>, <<" ", "W">>, <<>>}

\* date, UTC time, altitude, speed, course and a tenth field the modem
\* does not send
TailValues ==
  <<<<"1", "7", "0", "2", "2", "6">>,
    <<"0", "9", "1", "3", "1", "8", ".", "0", "0">>,
    <<"9", "4", ".", "5">>, <<"0", ".", "7", "7">>,
    <<"3", "4", "9", ".", "7">>, <<"1">>>>
TailEmpty == <<<<>>, <<>>, <<>>, <<>>, <<>>, <<>>>>

FieldCounts == {1, 8, 9, 10}
LineCuts == {0, 5, 9}

GpsInputs ==
  [marker : BOOLEAN, echo : BOOLEAN, pad : BOOLEAN, lat : LatInputs,
   ns : NsInputs, lon : LonInputs, ew : EwInputs, tail : {"values", "empty"},
   nFields : FieldCounts, cut : LineCuts]

CgpsResponse(g) ==
  (IF g.echo THEN EchoCgpsInfo ELSE <<>>)
    \o (IF g.marker THEN CGPSINFO ELSE <<"E", "R", "R", "O", "R">>)
    \o (IF g.pad THEN <<" ">> ELSE <<>>)
    \o JoinFields(<<g.lat.text, g.ns, g.lon.text, g.ew>>
                    \o (IF g.tail = "values" THEN TailValues ELSE TailEmpty),
                  g.nFields, g.cut)
    \o OkTrailer

\* ---- +CGNSSINFO ----
SatInputs ==
  {[text |-> <<"7">>, val |-> 7], [text |-> <<"0", "7">>, val |-> 7],
   [text |-> <<"1", "2">>, val |-> 12], [text |-> <<"0">>, val |-> 0],
   [text |-> <<>>, val |-> 0], [text |-> <<" ">>, val |-> 0]}
ModeInputs == {<<>>, <<"2">>, <<"3">>, <<" ">>}
SatFieldCounts == {1, 2, 3, 6, 8}
SatTail == <<<<"0", "3">>, <<"0", "0">>, <<"0", "1">>, <<"1", "0">>, <<>>, <<"N">>>>

CgnssInputs ==
  [marker : BOOLEAN, echo : BOOLEAN, pad : BOOLEAN, mode : ModeInputs,
   sats : SatInputs, nFields : SatFieldCounts, trailer : BOOLEAN]

CgnssResponse(g) ==
  (IF g.echo THEN EchoCgnssInfo ELSE <<>>)
    \o (IF g.marker THEN CGNSSINFO ELSE <<>>)
    \o (IF g.pad THEN <<" ">> ELSE <<>>)
    \o JoinFields(<<g.mode, g.sats.text>> \o SatTail, g.nFields, 0)
    \o (IF g.trailer THEN OkTrailer ELSE <<>>)

(***************************************************************************)
(* The parsers applied to a response drawn in Init                         *)
(***************************************************************************)
ParseInit ==
  /\ gen \in GpsInputs
  /\ gpsRaw = CgpsResponse(gen)
  /\ gps = EmptyGpsData
  /\ parsePc = "input"

ParseFix ==
  /\ parsePc = "input"
  /\ gps' = parseCgpsInfo(gpsRaw)
  /\ parsePc' = "parsed"
  /\ UNCHANGED <<gen, gpsRaw>>

SatInit ==
  /\ satGen \in CgnssInputs
  /\ satRaw = CgnssResponse(satGen)
  /\ satCount = -1
  /\ satPc = "input"

ParseSat ==
  /\ satPc = "input"
  /\ satCount' = getSatelliteCountOf(satRaw)
  /\ satPc' = "parsed"
  /\ UNCHANGED <<satGen, satRaw>>

(***************************************************************************)
(* sendAT: one call, one loop iteration per step                           *)
(***************************************************************************)
SILENCE_MS == 1500
MaxBursts == 2

\* the timeouts sendAT is called with for the two HTTP status queries
CallTimeouts == {2000, 3000}
\* the clock at the call: after boot, and shortly before the clock wraps
CallClocks == {U32(5500), U32Minus(700)}
StaleBytes == {<<>>, <<"x">>}
Bursts == {<<"\r", "\n">>, <<"O", "K">>}

\* response.length() > 0 && millis() - lastByteTime >= SILENCE_MS, without
\* the test of the length
silenceBreakAnyLength(resp, t, last) == ~U32Less(U32Sub(t, last), U32(SILENCE_MS))

\* response.length() > 0 && millis() - lastByteTime >= SILENCE_MS
silenceBreak(resp, t, last) ==
  Len(resp) > 0 /\ ~U32Less(U32Sub(t, last), U32(SILENCE_MS))

SendATInit ==
  /\ now \in CallClocks
  /\ rx \in StaleBytes
  /\ atPc = "call"
  /\ atTimeout \in CallTimeouts
  /\ atStart = U32(0) /\ atLastByte = U32(0)
  /\ atResp = <<>> /\ atResult = <<>>
  /\ atBursts = 0 /\ atEmitAt = now
  /\ atStale = rx
  /\ atCmd = "command"

\* the drain loop left out
drainNothing(buf) == buf

\* while (MODULE_SERIAL.available()) MODULE_SERIAL.read(): what is left
drain(buf) == <<>>

\* drain the buffer, write the command, delay(500), start the clocks
SendATCall ==
  /\ atPc = "call"
  /\ rx' = drain(rx)
  /\ now' = U32Add(now, 500)
  /\ atResp' = <<>>
  /\ atLastByte' = now'
  /\ atStart' = now'
  /\ atPc' = "loop"
  /\ UNCHANGED <<atTimeout, atResult, atBursts, atEmitAt, atStale, atCmd>>

\* the modem puts a burst of bytes on the line
ModemBurst ==
  /\ atPc = "loop"
  /\ atBursts < MaxBursts
  /\ \E b \in Bursts : rx' = rx \o b
  /\ atBursts' = atBursts + 1
  /\ atEmitAt' = now
  /\ UNCHANGED <<now, atPc, atTimeout, atStart, atLastByte, atResp, atResult,
                 atStale, atCmd>>

\* the loop kept going for twice the timeout
timeLeftDoubled(t, start, timeout) ==
  U32Less(U32Sub(t, start), U32(2 * timeout))

\* while (millis() - start < timeout)
timeLeft(t, start, timeout) == U32Less(U32Sub(t, start), U32(timeout))

\* one evaluation of the loop condition and, if it holds, one iteration
SendATLoop ==
  /\ atPc = "loop"
  /\ IF timeLeft(now, atStart, atTimeout)
     THEN LET resp == atResp \o rx
              last == IF rx # <<>> THEN now ELSE atLastByte
          IN /\ atResp' = resp
             /\ rx' = <<>>
             /\ atLastByte' = last
             /\ IF silenceBreak(resp, now, last)
                THEN /\ atPc' = "done"
                     /\ atResult' = trim(resp)
                     /\ now' = now
                ELSE /\ atPc' = "loop"
                     /\ atResult' = atResult
                     /\ now' = U32Add(now, 10)
     ELSE /\ atPc' = "done"
          /\ atResult' = trim(atResp)
          /\ UNCHANGED <<now, rx, atResp, atLastByte>>
  /\ UNCHANGED <<atTimeout, atStart, atBursts, atEmitAt, atStale, atCmd>>

(***************************************************************************)
(* Two calls of sendAT in a row, as in initHTTP: sendAT("AT+CGACT?", 2000) *)
(* and, with nothing but a debug print between, sendAT("AT+HTTPTERM",      *)
(* 2000).  The modem sends its bytes at once or late; atBursts counts them *)
(* over both calls.                                                        *)
(***************************************************************************)
CGACT == "AT+CGACT?"
HTTPTERM == "AT+HTTPTERM"

\* how long after the start of sendAT's wait the modem may put bytes on the
\* line: at once, or later than the silence window
ReplyOffsets == {U32(0), U32(SILENCE_MS + 100)}

LinkInit ==
  /\ now \in CallClocks
  /\ rx = <<>>
  /\ atPc = "call"
  /\ atTimeout = 2000
  /\ atStart = U32(0) /\ atLastByte = U32(0)
  /\ atResp = <<>> /\ atResult = <<>>
  /\ atBursts = 0 /\ atEmitAt = now
  /\ atStale = rx
  /\ atCmd = CGACT

\* the modem puts bytes on the line, at one of the offsets
ModemReply ==
  /\ atPc = "loop"
  /\ atBursts < MaxBursts
  /\ U32Sub(now, atStart) \in ReplyOffsets
  /\ \E b \in Bursts : rx' = rx \o b
  /\ atBursts' = atBursts + 1
  /\ atEmitAt' = now
  /\ UNCHANGED <<now, atPc, atTimeout, atStart, atLastByte, atResp, atResult,
                 atStale, atCmd>>

\* the first call has returned; initHTTP calls sendAT("AT+HTTPTERM", 2000)
SendATNext ==
  /\ atPc = "done"
  /\ atCmd = CGACT
  /\ atCmd' = HTTPTERM
  /\ atTimeout' = 2000
  /\ atStale' = rx
  /\ atPc' = "call"
  /\ UNCHANGED <<now, rx, atStart, atLastByte, atResp, atResult, atBursts,
                 atEmitAt>>

(***************************************************************************)
(* httpPost, step 6 and the classification of the result                   *)
(***************************************************************************)
HTTPACTION == <<"+", "H", "T", "T", "P", "A", "C", "T", "I", "O", "N", ":">>
HTTPACTION_1 == HTTPACTION \o <<" ", "1", ",">>
HTTPACTION_200 == HTTPACTION_1 \o <<"2", "0", "0">>
HTTPACTION_201 == HTTPACTION_1 \o <<"2", "0", "1">>

HTTP_RESULT_WAIT == 15000

\* the statuses the modem reports; 0 stands for a server that never answers
Statuses == {200, 201, 204, 404}

\* +HTTPACTION: 1,<status>,<datalen> on a line of its own
UrcText(status) ==
  CRLF \o HTTPACTION_1 \o Decimal(status, 3) \o <<",", "0">> \o CRLF

\* if (200 || 201) return true; else if (any "+HTTPACTION: 1,") return
\* false; else return false
httpResultOf(resp) ==
  indexOf(resp, HTTPACTION_200) # -1 \/ indexOf(resp, HTTPACTION_201) # -1

HttpWaitInit ==
  /\ now = U32(60000)
  /\ rx = <<>>
  /\ hpPc = "enter"
  /\ hpStart = U32(0)
  /\ actionResp = <<>>
  /\ hpResult = FALSE
  /\ hpStatus \in Statuses \cup {0}
  /\ hpUrc = IF hpStatus = 0 THEN <<>> ELSE UrcText(hpStatus)

\* start = millis(); String actionResp = "";
HttpWaitEnter ==
  /\ hpPc = "enter"
  /\ hpStart' = now
  /\ actionResp' = <<>>
  /\ hpPc' = "wait"
  /\ UNCHANGED <<now, rx, hpResult, hpStatus, hpUrc>>

\* the next bytes of the result reach the receive buffer, in any number
ModemUrc ==
  /\ hpPc = "wait"
  /\ hpUrc # <<>>
  /\ \E k \in 1..Len(hpUrc) :
       /\ rx' = rx \o SubSeq(hpUrc, 1, k)
       /\ hpUrc' = SubSeq(hpUrc, k + 1, Len(hpUrc))
  /\ UNCHANGED <<now, hpPc, hpStart, actionResp, hpResult, hpStatus>>

\* one evaluation of the loop condition and, if it holds, one iteration;
\* on leaving the loop the result is classified and returned
HttpWaitLoop ==
  /\ hpPc = "wait"
  /\ IF U32Less(U32Sub(now, hpStart), U32(HTTP_RESULT_WAIT))
     THEN LET resp == actionResp \o rx
          IN /\ actionResp' = resp
             /\ rx' = <<>>
             /\ IF indexOf(resp, HTTPACTION) # -1
                THEN /\ hpPc' = "done"
                     /\ hpResult' = httpResultOf(resp)
                     /\ now' = now
                ELSE /\ hpPc' = "wait"
                     /\ hpResult' = hpResult
                     /\ now' = U32Add(now, 100)
     ELSE /\ hpPc' = "done"
          /\ hpResult' = httpResultOf(actionResp)
          /\ UNCHANGED <<now, rx, actionResp>>
  /\ UNCHANGED <<hpStart, hpStatus, hpUrc>>

(***************************************************************************)
(* The sketch: configuration                                               *)
(***************************************************************************)
READ_TIMEOUT == 10000
POLL_INTERVAL == 5000
MODULE_RETRY_MAX == 10
MODULE_RETRY_DELAY == 2000
SMS_FIX_INTERVAL == 5
HTTP_POST_INTERVAL == 30000
SMS_ENABLED == TRUE
HTTP_ENABLED == TRUE
MANUAL_APN_CONFIG == TRUE

\* lastRetryTime = millis() + 8000
RETRY_COOLDOWN == 8000

\* setup(): delay(500), then powerOnModule
SETUP_DELAY == 500
\* powerOnModule: delay(500), delay(1500), delay(3000)
POWER_ON_MS == 5000

\* probes sent while the wake cycle is followed on its own, probes the modem
\* may leave unanswered when the whole sketch runs, and poll ticks
MaxProbes == 13
MaxBootProbes == 2
MaxAttempts == 10

(***************************************************************************)
(* What a blocking call costs and returns.  The modem answers a command    *)
(* while sendAT is still in its delay(500), or not at all; it takes        *)
(* NETWORK_LATENCY to report the outcome of an SMS or an HTTP action, or   *)
(* never reports it.                                                       *)
(***************************************************************************)
\* the time one sendAT takes: delay(500), then the silence window after an
\* answer, or the whole timeout without one
SendATTime(answered, timeout) ==
  500 + (IF answered THEN SILENCE_MS ELSE timeout)

OkText == <<"O", "K">>
ErrorText == <<"E", "R", "R", "O", "R">>

hasOK(resp) == indexOf(resp, OkText) # -1

NETWORK_LATENCY == 3000

\* what the modem does with an SMS: cmgf is its answer to AT+CMGF=1, sent
\* whether +CMGS: follows the body
SmsRuns ==
  {[cmgf |-> ErrorText, sent |-> FALSE], [cmgf |-> OkText, sent |-> TRUE]}
NoSms == [cmgf |-> <<>>, sent |-> FALSE]

\* sendSMS: its result and the time it takes
sendSMS(run) ==
  IF ~SMS_ENABLED THEN [ok |-> FALSE, ms |-> 0]
  ELSE IF ~hasOK(run.cmgf)
       THEN [ok |-> FALSE, ms |-> SendATTime(run.cmgf # <<>>, 5000)]
       ELSE [ok |-> run.sent,
             ms |-> SendATTime(TRUE, 5000) + 2000
                      + (IF run.sent THEN NETWORK_LATENCY ELSE 10000)]

\* what the modem does during initHTTP: registered or not, and its answer
\* to AT+HTTPINIT
HttpInitRuns == {[creg |-> FALSE, init |-> <<>>], [creg |-> TRUE, init |-> OkText]}
NoHttpInit == [creg |-> FALSE, init |-> <<"-">>]

\* initHTTP without its early return: the flag is whatever this run yields
initHTTPRerun(flag, run) ==
  [flag |-> run.creg /\ hasOK(run.init), ms |-> 0]

\* initHTTP: the flag afterwards and the time it takes
initHTTP(flag, run) ==
  IF flag THEN [flag |-> TRUE, ms |-> 0]
  ELSE IF ~run.creg THEN [flag |-> FALSE, ms |-> SendATTime(TRUE, 3000)]
  ELSE [flag |-> indexOf(run.init, ErrorText) = -1 /\ hasOK(run.init),
        ms |-> SendATTime(TRUE, 3000)
                 + (IF MANUAL_APN_CONFIG THEN SendATTime(TRUE, 3000) + 500
                    ELSE 0)
                 + SendATTime(TRUE, 2000)
                 + SendATTime(TRUE, 2000) + 1000
                 + SendATTime(run.init # <<>>, 5000)]

\* what the modem does during httpPost: it refuses the URL, or takes the
\* body and reports a status
HttpPostRuns == {[url |-> FALSE, status |-> 0], [url |-> TRUE, status |-> 200]}
NoHttpPost == [url |-> FALSE, status |-> -1]

\* httpPost: the time it takes (URL, content type, data, action, result)
httpPostTime(flag, run) ==
  IF ~HTTP_ENABLED \/ ~flag THEN 0
  ELSE IF ~run.url THEN SendATTime(TRUE, 3000)
  ELSE SendATTime(TRUE, 3000) + SendATTime(TRUE, 2000)
         + SendATTime(TRUE, 3000)
         + (IF run.status = 0 THEN HTTP_RESULT_WAIT ELSE NETWORK_LATENCY)

(***************************************************************************)
(* initHTTP and httpPost, command by command: one call, with the flag      *)
(* httpInitialized either way at the call, and the modem's answers drawn   *)
(* as the call goes.  hcLog is what the call writes to the link.           *)
(***************************************************************************)
CgregPrefix == <<"+", "C", "G", "R", "E", "G", ":", " ", "0", ",">>
CGREG_HOME == CgregPrefix \o <<"1">>
CGREG_ROAMING == CgregPrefix \o <<"5">>
\* registered at home, roaming, still searching, or no answer
CgregReplies == {CGREG_HOME, CGREG_ROAMING, CgregPrefix \o <<"2">>, <<>>}
ResultReplies == {OkText, ErrorText, <<>>}
\* answers to AT+HTTPINIT: also a text that holds both tokens
InitReplies == ResultReplies \cup {OkText \o ErrorText}

\* initHTTP going on whatever AT+CGREG? answered
notRegisteredNever(netResp) == FALSE

\* netResp.indexOf("+CGREG: 0,1") == -1 && netResp.indexOf("+CGREG: 0,5") == -1
notRegistered(netResp) ==
  indexOf(netResp, CGREG_HOME) = -1 /\ indexOf(netResp, CGREG_ROAMING) = -1

\* the session taken as open on OK alone
httpInitOKIgnoringError(initResp) == hasOK(initResp)

\* initResp.indexOf("ERROR") == -1, then initResp.indexOf("OK") != -1
httpInitOK(initResp) == indexOf(initResp, ErrorText) = -1 /\ hasOK(initResp)

HttpCallInit ==
  /\ now = U32(60000)
  /\ rx = <<>>
  /\ httpInitialized \in BOOLEAN
  /\ hcFn \in {"initHTTP", "httpPost"}
  /\ hcPc = "call"
  /\ hcLog = <<>>
  /\ hcReplies = <<>>
  /\ hcRet = FALSE
  /\ hpPc = "idle"
  /\ hpStart = U32(0)
  /\ actionResp = <<>>
  /\ hpResult = FALSE
  /\ hpStatus \in {200, 404, 0}
  /\ hpUrc = IF hpStatus = 0 THEN <<>> ELSE UrcText(hpStatus)

\* initHTTP without its early return
alreadyInitializedNever(flag) == FALSE

\* initHTTP: if (httpInitialized) return true;
alreadyInitialized(flag) == flag

\* one step of initHTTP: up to and including its next command
InitHTTPStep ==
  /\ hcFn = "initHTTP"
  /\ CASE hcPc = "call" ->
            IF alreadyInitialized(httpInitialized)
            THEN /\ hcPc' = "done" /\ hcRet' = TRUE
                 /\ UNCHANGED <<now, hcLog, hcReplies, httpInitialized>>
            ELSE \E netResp \in CgregReplies :
                   /\ hcLog' = Append(hcLog, "AT+CGREG?")
                   /\ hcReplies' = Append(hcReplies, netResp)
                   /\ now' = U32Add(now, SendATTime(netResp # <<>>, 3000))
                   /\ IF notRegistered(netResp)
                      THEN hcPc' = "done" /\ hcRet' = FALSE
                      ELSE hcPc' = "apn" /\ hcRet' = hcRet
                   /\ UNCHANGED httpInitialized
       [] hcPc = "apn" ->
            /\ IF MANUAL_APN_CONFIG
               THEN /\ hcLog' = Append(hcLog, "AT+CGDCONT")
                    /\ hcReplies' = Append(hcReplies, OkText)
                    /\ now' = U32Add(now, SendATTime(TRUE, 3000) + 500)
               ELSE UNCHANGED <<hcLog, hcReplies, now>>
            /\ hcPc' = "pdp"
            /\ UNCHANGED <<hcRet, httpInitialized>>
       [] hcPc = "pdp" ->
            /\ hcLog' = Append(hcLog, CGACT)
            /\ hcReplies' = Append(hcReplies, OkText)
            /\ now' = U32Add(now, SendATTime(TRUE, 2000))
            /\ hcPc' = "term"
            /\ UNCHANGED <<hcRet, httpInitialized>>
       [] hcPc = "term" ->
            \E termResp \in ResultReplies :
              /\ hcLog' = Append(hcLog, HTTPTERM)
              /\ hcReplies' = Append(hcReplies, termResp)
              /\ now' = U32Add(now, SendATTime(termResp # <<>>, 2000) + 1000)
              /\ hcPc' = "init"
              /\ UNCHANGED <<hcRet, httpInitialized>>
       [] hcPc = "init" ->
            \E initResp \in InitReplies :
              /\ hcLog' = Append(hcLog, "AT+HTTPINIT")
              /\ hcReplies' = Append(hcReplies, initResp)
              /\ now' = U32Add(now, SendATTime(initResp # <<>>, 5000))
              /\ hcRet' = httpInitOK(initResp)
              /\ httpInitialized' = (httpInitialized \/ hcRet')
              /\ hcPc' = "done"
       [] OTHER -> FALSE
  /\ UNCHANGED <<rx, hcFn, hpVars>>

DOWNLOAD == <<"D", "O", "W", "N", "L", "O", "A", "D">>
\* the upload prompt, an error, or nothing within the 5 s
PromptReplies == {DOWNLOAD, ErrorText, <<>>}

\* the payload written whether or not the prompt was read
promptSeenAlways(downloadResp) == TRUE

\* downloadResp.indexOf("DOWNLOAD") != -1
promptSeen(downloadResp) == indexOf(downloadResp, DOWNLOAD) # -1

\* httpPost without its test of the session flag
sessionMissingNever(flag) == ~HTTP_ENABLED

\* httpPost: if (!HTTP_ENABLED) return false; if (!httpInitialized) return false;
sessionMissing(flag) == ~HTTP_ENABLED \/ ~flag

\* one step of httpPost: up to and including its next command; after the
\* accepted action the wait for the result takes over, and its outcome is
\* what httpPost returns
HttpPostStep ==
  /\ hcFn = "httpPost"
  /\ CASE hcPc = "call" ->
            IF sessionMissing(httpInitialized)
            THEN /\ hcPc' = "done" /\ hcRet' = FALSE
                 /\ UNCHANGED <<now, hcLog, hcReplies, hpPc>>
            ELSE \E resp \in ResultReplies :
                   /\ hcLog' = Append(hcLog, "AT+HTTPPARA=URL")
                   /\ hcReplies' = Append(hcReplies, resp)
                   /\ now' = U32Add(now, SendATTime(resp # <<>>, 3000))
                   /\ hcPc' = IF hasOK(resp) THEN "content" ELSE "done"
                   /\ UNCHANGED <<hcRet, hpPc>>
       [] hcPc = "content" ->
            \E resp \in ResultReplies :
              /\ hcLog' = Append(hcLog, "AT+HTTPPARA=CONTENT")
              /\ hcReplies' = Append(hcReplies, resp)
              /\ now' = U32Add(now, SendATTime(resp # <<>>, 2000))
              /\ hcPc' = IF hasOK(resp) THEN "data" ELSE "done"
              /\ UNCHANGED <<hcRet, hpPc>>
       [] hcPc = "data" ->
            \E downloadResp \in PromptReplies :
              /\ hcLog' = Append(hcLog, "AT+HTTPDATA")
              /\ hcReplies' = Append(hcReplies, downloadResp)
              /\ IF promptSeen(downloadResp)
                 THEN hcPc' = "body" /\ now' = now
                 ELSE hcPc' = "done" /\ now' = U32Add(now, 5000)
              /\ UNCHANGED <<hcRet, hpPc>>
       [] hcPc = "body" ->
            \E dataResp \in {OkText, <<>>} :
              /\ hcLog' = Append(hcLog, "jsonBody")
              /\ hcReplies' = Append(hcReplies, dataResp)
              /\ now' = U32Add(now, IF hasOK(dataResp) THEN 0 ELSE 3000)
              /\ hcPc' = "action"
              /\ UNCHANGED <<hcRet, hpPc>>
       [] hcPc = "action" ->
            \E resp \in ResultReplies :
              /\ hcLog' = Append(hcLog, "AT+HTTPACTION=1")
              /\ hcReplies' = Append(hcReplies, resp)
              /\ now' = U32Add(now, SendATTime(resp # <<>>, 3000))
              /\ IF hasOK(resp)
                 THEN hcPc' = "result" /\ hpPc' = "enter"
                 ELSE hcPc' = "done" /\ hpPc' = hpPc
              /\ UNCHANGED hcRet
       [] hcPc = "result" ->
            /\ hpPc = "done"
            /\ hcRet' = hpResult
            /\ hcPc' = "done"
            /\ UNCHANGED <<now, hcLog, hcReplies, hpPc>>
       [] OTHER -> FALSE
  /\ UNCHANGED <<rx, hcFn, httpInitialized, hpStart, actionResp, hpResult,
                 hpStatus, hpUrc>>

(***************************************************************************)
(* The sketch: tryWakeModule and loop                                      *)
(***************************************************************************)
SmsKinds == {"boot", "sat", "fix", "periodic"}

\* no poll tick yet; NotCounted: getSatelliteCount was not called
NotCounted == -2
NoTick == [valid |-> FALSE, sats |-> NotCounted, calls |-> {}]

\* the wake branch never taken
wakeNeededNever(ready) == FALSE

\* tryWakeModule called whether the module is ready or not
wakeNeededAlways(ready) == TRUE

\* loop: if (!moduleReady) { tryWakeModule(); return; }
wakeNeeded(ready) == ~ready

\* the probe held back on every pass
retryTooSoonAlways(t, last) == TRUE

\* millis() - lastRetryTime < MODULE_RETRY_DELAY
retryTooSoon(t, lastRetry) ==
  U32Less(U32Sub(t, lastRetry), U32(MODULE_RETRY_DELAY))

\* a poll on every call of loop
pollDueAlways(t, lastPoll) == TRUE

\* millis() - lastPollTime >= POLL_INTERVAL
pollDue(t, lastPoll) == ~U32Less(U32Sub(t, lastPoll), U32(POLL_INTERVAL))

\* a post on every tick with a fix
postDueAlways(t, lastPost) == HTTP_ENABLED

\* millis() - lastHttpPostTime >= HTTP_POST_INTERVAL
postDue(t, lastPost) ==
  HTTP_ENABLED /\ ~U32Less(U32Sub(t, lastPost), U32(HTTP_POST_INTERVAL))

\* the first-fix SMS sent on every fix
firstFixSmsDueAlways(sent) == TRUE

\* if (!smsSentFix)
firstFixSmsDue(sent) == ~sent

\* every parsed fix taken as valid
fixTakenAsValid(data) == TRUE

\* if (data.valid)
fixIsValid(data) == data.valid

\* the first-satellite SMS sent for a count of 0 as well
satSmsDueNonNegative(sent, sats) == ~sent /\ sats >= 0

\* if (!smsSentStart && sats > 0)
satSmsDue(sent, sats) == ~sent /\ sats > 0

\* the periodic SMS one fix late
periodicSmsDueLate(n) == n % SMS_FIX_INTERVAL = 1

\* fixCount % SMS_FIX_INTERVAL == 0
periodicSmsDue(n) == n % SMS_FIX_INTERVAL = 0

\* no answer was read (the command was not sent)
NoReply == <<"-">>

\* the state of the link after setup(): nothing written, PWRKEY pulsed once
StartPass == [link |-> <<>>, pulse |-> TRUE, gnss |-> NoReply]

\* commands on the link, each with the value of moduleReady when written
Written(ready, cmds) ==
  [i \in 1..Len(cmds) |-> [cmd |-> cmds[i], ready |-> ready]]

\* sendSMS: what it writes to the link
sendSMSLink(run) ==
  IF ~SMS_ENABLED THEN <<>>
  ELSE IF ~hasOK(run.cmgf) THEN <<"AT+CMGF=1">>
  ELSE <<"AT+CMGF=1", "AT+CMGS", "message", "Ctrl-Z">>

\* initHTTP: what it writes to the link
initHTTPLink(flag, run) ==
  IF flag THEN <<>>
  ELSE IF ~run.creg THEN <<"AT+CGREG?">>
  ELSE <<"AT+CGREG?">>
         \o (IF MANUAL_APN_CONFIG THEN <<"AT+CGDCONT">> ELSE <<>>)
         \o <<CGACT, HTTPTERM, "AT+HTTPINIT">>

\* httpPost: what it writes to the link
httpPostLink(flag, run) ==
  IF ~HTTP_ENABLED \/ ~flag THEN <<>>
  ELSE IF ~run.url THEN <<"AT+HTTPPARA=URL">>
  ELSE <<"AT+HTTPPARA=URL", "AT+HTTPPARA=CONTENT", "AT+HTTPDATA",
         "jsonBody", "AT+HTTPACTION=1">>

\* PWRKEY pulsed again after every failed probe
repulseDueEveryTime(count) == TRUE

\* retryCount % 3 == 0
repulseDue(count) == count % 3 = 0

\* a one-time flag set only if its SMS was delivered
sentFlagAfterDelivered(ok) == ok

\* sendSMS(...); smsSent... = true;  the result of the call is not used
sentFlagAfter(ok) == TRUE

SketchInit ==
  /\ now = U32(SETUP_DELAY + POWER_ON_MS)
  /\ rx = <<>>
  /\ moduleReady = FALSE /\ smsSentBoot = FALSE /\ smsSentStart = FALSE
  /\ smsSentFix = FALSE /\ httpInitialized = FALSE
  /\ attempt = 0 /\ fixCount = 0
  /\ lastPollTime = U32Minus(POLL_INTERVAL)
  /\ lastHttpPostTime = U32Minus(HTTP_POST_INTERVAL)
  /\ retryCount = 0
  /\ lastRetryTime = U32Minus(MODULE_RETRY_DELAY)
  /\ probes = 0
  /\ smsCalls = [k \in SmsKinds |-> 0]
  /\ cooldown = [on |-> FALSE, at |-> U32(0)]
  /\ lastTick = NoTick
  /\ lastPass = StartPass

\* loop() while the module is not ready and does not become ready:
\* tryWakeModule returns at once while the retry is not yet due (the calls
\* of loop() until it is due are one step), and otherwise sends a probe that
\* is not answered with OK (the modem is silent, or answers something else)
WakeProbeFails(limit, replies) ==
  /\ wakeNeeded(moduleReady)
  /\ IF retryTooSoon(now, lastRetryTime)
     THEN /\ now' = U32Add(lastRetryTime, MODULE_RETRY_DELAY)
          /\ UNCHANGED <<retryCount, lastRetryTime, cooldown, probes,
                         lastPass>>
     ELSE /\ probes < limit
          /\ \E resp \in replies :
               LET count == retryCount + 1
                   repulse == repulseDue(count)
                   giveUp == count >= MODULE_RETRY_MAX
                   t == U32Add(now, SendATTime(resp # <<>>, READ_TIMEOUT)
                                      + (IF repulse THEN POWER_ON_MS ELSE 0))
               IN /\ ~hasOK(resp)
                  /\ now' = t
                  /\ retryCount' = IF giveUp THEN 0 ELSE count
                  /\ lastRetryTime' =
                       IF giveUp THEN U32Add(t, RETRY_COOLDOWN) ELSE now
                  /\ cooldown' = IF giveUp THEN [on |-> TRUE, at |-> t]
                                 ELSE [on |-> FALSE, at |-> U32(0)]
                  /\ lastPass' = [link |-> Written(moduleReady, <<"AT">>),
                                  pulse |-> repulse, gnss |-> NoReply]
          /\ probes' = probes + 1
  /\ UNCHANGED <<rx, moduleReady, smsSentBoot, smsSentStart, smsSentFix,
                 httpInitialized, attempt, fixCount, lastPollTime,
                 lastHttpPostTime, smsCalls, lastTick>>

\* loop() while the module is not ready: the probe is answered with OK;
\* boot SMS, GNSS power, delay(2000), initHTTP
WakeProbeOK(limit) ==
  /\ wakeNeeded(moduleReady)
  /\ ~retryTooSoon(now, lastRetryTime)
  /\ probes < limit
  /\ \E sms \in (IF smsSentBoot THEN {NoSms} ELSE SmsRuns),
        gnss \in {OkText, ErrorText}, hi \in HttpInitRuns :
       LET bootMs == IF smsSentBoot THEN 0 ELSE sendSMS(sms).ms
           init == IF HTTP_ENABLED THEN initHTTP(httpInitialized, hi)
                   ELSE [flag |-> httpInitialized, ms |-> 0]
       IN /\ smsCalls' = IF smsSentBoot THEN smsCalls
                         ELSE [smsCalls EXCEPT !.boot = @ + 1]
          /\ smsSentBoot' = (smsSentBoot \/ sentFlagAfter(sendSMS(sms).ok))
          /\ httpInitialized' = init.flag
          /\ lastPass' =
               [link |-> Written(moduleReady, <<"AT">>)
                           \o Written(TRUE,
                                (IF smsSentBoot THEN <<>> ELSE sendSMSLink(sms))
                                  \o <<"AT+CGNSSPWR=1">>
                                  \o (IF HTTP_ENABLED
                                      THEN initHTTPLink(httpInitialized, hi)
                                      ELSE <<>>)),
                pulse |-> FALSE, gnss |-> gnss]
          /\ now' = U32Add(now, SendATTime(TRUE, READ_TIMEOUT) + bootMs
                                  + SendATTime(gnss # <<>>, READ_TIMEOUT)
                                  + (IF HTTP_ENABLED THEN 2000 + init.ms ELSE 0))
  /\ moduleReady' = TRUE
  /\ retryCount' = retryCount + 1
  /\ lastRetryTime' = now
  /\ probes' = probes + 1
  /\ cooldown' = [on |-> FALSE, at |-> U32(0)]
  /\ UNCHANGED <<rx, smsSentStart, smsSentFix, attempt, fixCount,
                 lastPollTime, lastHttpPostTime, lastTick>>

\* loop() with the module ready and the poll not yet due: nothing happens
\* until the clock has reached the poll time
PollNotDue ==
  /\ ~wakeNeeded(moduleReady)
  /\ ~pollDue(now, lastPollTime)
  /\ now' = U32Add(lastPollTime, POLL_INTERVAL)
  /\ UNCHANGED <<rx, sketchVars, runVars>>

\* the answers to AT+CGPSINFO and AT+CGNSSINFO the modem may give
FixGen ==
  [marker |-> TRUE, echo |-> FALSE, pad |-> TRUE,
   lat |-> [coord |-> [d |-> 10, m |-> 15, u |-> 471638],
            text |-> CoordText([d |-> 10, m |-> 15, u |-> 471638], 2)],
   ns |-> <<"N">>,
   lon |-> [coord |-> [d |-> 123, m |-> 44, u |-> 234064],
            text |-> CoordText([d |-> 123, m |-> 44, u |-> 234064], 3)],
   ew |-> <<"E">>, tail |-> "values", nFields |-> 9, cut |-> 0]
NoFixGen ==
  [FixGen EXCEPT !.lat = [coord |-> NoCoord, text |-> <<>>], !.ns = <<>>,
                 !.lon = [coord |-> NoCoord, text |-> <<>>], !.ew = <<>>,
                 !.tail = "empty"]
FixResponses ==
  {trim(CgpsResponse(FixGen)), trim(CgpsResponse(NoFixGen)), ErrorText}
\* each answer with what parseCgpsInfo makes of it
ParsedFixes == {[raw |-> r, data |-> parseCgpsInfo(r)] : r \in FixResponses}

SatGen ==
  [marker |-> TRUE, echo |-> FALSE, pad |-> TRUE, mode |-> <<"2">>,
   sats |-> [text |-> <<"0", "7">>, val |-> 7], nFields |-> 6,
   trailer |-> TRUE]
NoSatGen ==
  [SatGen EXCEPT !.mode = <<>>, !.sats = [text |-> <<>>, val |-> 0]]
SatResponses ==
  {trim(CgnssResponse(SatGen)), trim(CgnssResponse(NoSatGen)), ErrorText}
\* each answer with what getSatelliteCount makes of it
CountedSats == {[raw |-> r, sats |-> getSatelliteCountOf(r)] : r \in SatResponses}

\* loop() with the module ready and the poll due: one poll tick
PollTick ==
  /\ ~wakeNeeded(moduleReady)
  /\ pollDue(now, lastPollTime)
  /\ attempt < MaxAttempts
  /\ lastPollTime' = now
  /\ attempt' = attempt + 1
  /\ \E fix \in ParsedFixes :
       LET data == fix.data
           t1 == U32Add(now, SendATTime(fix.raw # <<>>, READ_TIMEOUT))
       IN IF fixIsValid(data)
          THEN LET count == fixCount + 1
                   first == firstFixSmsDue(smsSentFix)
                   periodic == periodicSmsDue(count)
               IN \E sms1 \in (IF first THEN SmsRuns ELSE {NoSms}),
                     sms2 \in (IF periodic THEN SmsRuns ELSE {NoSms}) :
                    LET t2 == U32Add(t1, (IF first THEN sendSMS(sms1).ms ELSE 0)
                                           + (IF periodic THEN sendSMS(sms2).ms
                                              ELSE 0))
                        post == postDue(t2, lastHttpPostTime)
                    IN \E hi \in (IF post /\ ~httpInitialized THEN HttpInitRuns
                                  ELSE {NoHttpInit}),
                          hp \in (IF post THEN HttpPostRuns ELSE {NoHttpPost}) :
                         LET init == IF post THEN initHTTP(httpInitialized, hi)
                                     ELSE [flag |-> httpInitialized, ms |-> 0]
                         IN /\ fixCount' = count
                            /\ smsSentFix' =
                                 (smsSentFix
                                    \/ sentFlagAfter(sendSMS(sms1).ok))
                            /\ smsCalls' =
                                 [smsCalls EXCEPT
                                    !.fix = IF first THEN @ + 1 ELSE @,
                                    !.periodic = IF periodic THEN @ + 1 ELSE @]
                            /\ lastHttpPostTime' =
                                 IF post THEN t2 ELSE lastHttpPostTime
                            /\ httpInitialized' = init.flag
                            /\ now' = U32Add(t2, init.ms
                                               + (IF post /\ init.flag
                                                  THEN httpPostTime(init.flag, hp)
                                                  ELSE 0))
                            /\ lastTick' =
                                 [valid |-> data.valid, sats |-> NotCounted,
                                  calls |->
                                    {"onGpsData"}
                                      \cup (IF periodic THEN {"periodicSMS"}
                                            ELSE {})
                                      \cup (IF post /\ ~httpInitialized
                                            THEN {"initHTTP"} ELSE {})
                                      \cup (IF post /\ init.flag
                                            THEN {"httpPost"} ELSE {})]
                            /\ lastPass' =
                                 [link |->
                                    Written(moduleReady,
                                      <<"AT+CGPSINFO">>
                                        \o (IF first THEN sendSMSLink(sms1)
                                            ELSE <<>>)
                                        \o (IF periodic THEN sendSMSLink(sms2)
                                            ELSE <<>>)
                                        \o (IF post
                                            THEN initHTTPLink(httpInitialized, hi)
                                            ELSE <<>>)
                                        \o (IF post /\ init.flag
                                            THEN httpPostLink(init.flag, hp)
                                            ELSE <<>>)),
                                  pulse |-> FALSE, gnss |-> NoReply]
                            /\ UNCHANGED smsSentStart
          ELSE \E sat \in CountedSats :
                 LET t2 == U32Add(t1, SendATTime(sat.raw # <<>>, READ_TIMEOUT))
                     notify == satSmsDue(smsSentStart, sat.sats)
                 IN \E sms \in (IF notify THEN SmsRuns ELSE {NoSms}) :
                      /\ smsSentStart' =
                           (smsSentStart
                              \/ (notify /\ sentFlagAfter(sendSMS(sms).ok)))
                      /\ smsCalls' = IF notify
                                     THEN [smsCalls EXCEPT !.sat = @ + 1]
                                     ELSE smsCalls
                      /\ now' = IF notify THEN U32Add(t2, sendSMS(sms).ms) ELSE t2
                      /\ lastTick' = [valid |-> data.valid, sats |-> sat.sats,
                                      calls |-> {}]
                      /\ lastPass' =
                           [link |->
                              Written(moduleReady,
                                <<"AT+CGPSINFO", "AT+CGNSSINFO">>
                                  \o (IF notify THEN sendSMSLink(sms)
                                      ELSE <<>>)),
                            pulse |-> FALSE, gnss |-> NoReply]
                      /\ UNCHANGED <<fixCount, smsSentFix, lastHttpPostTime,
                                     httpInitialized>>
  /\ UNCHANGED <<rx, moduleReady, smsSentBoot, retryCount, lastRetryTime,
                 probes, cooldown>>

(***************************************************************************)
(* httpPost, steps 5 and 6 together: sendAT("AT+HTTPACTION=1", 3000) loop  *)
(* pass by loop pass, then the wait for the result.  The modem answers OK  *)
(* at once and reports the result whenever the server has answered.        *)
(***************************************************************************)
ActionInit ==
  /\ now = U32(60000)
  /\ rx = <<>>
  /\ atPc = "call"
  /\ atTimeout = 3000
  /\ atStart = U32(0) /\ atLastByte = U32(0)
  /\ atResp = <<>> /\ atResult = <<>>
  /\ atBursts = 0 /\ atEmitAt = now
  /\ atStale = rx
  /\ atCmd = "AT+HTTPACTION=1"
  /\ hpPc = "idle"
  /\ hpStart = U32(0)
  /\ actionResp = <<>>
  /\ hpResult = FALSE
  /\ hpStatus \in {200, 404}
  /\ hpUrc = UrcText(hpStatus)

\* the modem accepts the command: OK is in the buffer when sendAT's
\* delay(500) is over
ModemAccepts ==
  /\ atPc = "loop"
  /\ atBursts = 0
  /\ now = atStart
  /\ rx' = rx \o CRLF \o OkText \o CRLF
  /\ atBursts' = 1
  /\ atEmitAt' = now
  /\ UNCHANGED <<now, atPc, atTimeout, atStart, atLastByte, atResp, atResult,
                 atStale, atCmd, hpVars>>

\* the modem reports the result, at any time after it has accepted the
\* command and before httpPost has returned
ModemResult ==
  /\ atBursts > 0
  /\ hpUrc # <<>>
  /\ hpPc # "done"
  /\ rx' = rx \o hpUrc
  /\ hpUrc' = <<>>
  /\ UNCHANGED <<now, atVars, hpPc, hpStart, actionResp, hpResult, hpStatus>>

\* sendAT has returned: if (actionCmd.indexOf("OK") == -1) return false;
\* otherwise on to the wait for the result
ActionReturn ==
  /\ atPc = "done"
  /\ hpPc = "idle"
  /\ atPc' = "idle"
  /\ IF hasOK(atResult)
     THEN hpPc' = "enter" /\ hpResult' = hpResult
     ELSE hpPc' = "done" /\ hpResult' = FALSE
  /\ UNCHANGED <<now, rx, atTimeout, atStart, atLastByte, atResp, atResult,
                 atBursts, atEmitAt, atStale, atCmd, hpStart, actionResp,
                 hpStatus, hpUrc>>

(***************************************************************************)
(* sendSMS, step by step: one call, the modem's answers drawn at the call  *)
(***************************************************************************)
CMGS == <<"+", "C", "M", "G", "S", ":">>
PROMPT == <<">", " ">>
SMS_SETTLE_MS == 2000
SMS_RESULT_WAIT == 10000

\* what the modem sends once the message is submitted, as the bursts in
\* which it reaches the receive buffer: nothing, the reference of the sent
\* message, an error, or both one after the other
SmsOutputs ==
  {<<>>, <<CMGS>>, <<ErrorText>>, <<ErrorText, CMGS>>, <<CMGS, ErrorText>>,
   <<ErrorText \o CMGS>>}

\* the header and the message written whatever AT+CMGF=1 answered
textModeSetAlways(r) == TRUE

\* r.indexOf("OK") != -1
textModeSet(r) == hasOK(r)

\* the two break tests of the wait loop
smsWaitOver(resp) == indexOf(resp, CMGS) # -1 \/ indexOf(resp, ErrorText) # -1

\* if (resp.indexOf("+CMGS:") != -1) return true; else return false;
smsDelivered(resp) == indexOf(resp, CMGS) # -1

SmsInit ==
  /\ now = U32(60000)
  /\ rx = <<>>
  /\ smPc = "call"
  /\ smLog = <<>>
  /\ smCmgf \in ResultReplies
  /\ smPrompt \in BOOLEAN
  /\ smOut \in SmsOutputs
  /\ smStart = U32(0)
  /\ smResp = <<>>
  /\ smRet = FALSE

\* sendSMS up to its wait: text mode, header, delay(2000), message and
\* Ctrl+Z; then one evaluation of the wait loop's condition per step and,
\* on leaving the loop, the result
SendSMSStep ==
  /\ CASE smPc = "call" ->
            IF ~SMS_ENABLED
            THEN /\ smPc' = "done" /\ smRet' = FALSE
                 /\ UNCHANGED <<now, rx, smLog, smStart, smResp>>
            ELSE /\ smLog' = Append(smLog, [cmd |-> "AT+CMGF=1", at |-> now])
                 /\ rx' = <<>>
                 /\ now' = U32Add(now, SendATTime(smCmgf # <<>>, 5000))
                 /\ smPc' = IF textModeSet(smCmgf) THEN "cmgs" ELSE "done"
                 /\ smRet' = FALSE
                 /\ UNCHANGED <<smStart, smResp>>
       [] smPc = "cmgs" ->
            /\ smLog' = Append(smLog, [cmd |-> "AT+CMGS", at |-> now])
            /\ now' = U32Add(now, SMS_SETTLE_MS)
            /\ rx' = IF smPrompt THEN rx \o PROMPT ELSE rx
            /\ smPc' = "body"
            /\ UNCHANGED <<smStart, smResp, smRet>>
       [] smPc = "body" ->
            /\ smLog' = smLog \o <<[cmd |-> "message", at |-> now],
                                   [cmd |-> "Ctrl-Z", at |-> now]>>
            /\ smStart' = now
            /\ smResp' = <<>>
            /\ smPc' = "wait"
            /\ UNCHANGED <<now, rx, smRet>>
       [] smPc = "wait" ->
            IF U32Less(U32Sub(now, smStart), U32(SMS_RESULT_WAIT))
            THEN LET resp == smResp \o rx
                 IN /\ smResp' = resp
                    /\ rx' = <<>>
                    /\ IF smsWaitOver(resp)
                       THEN /\ smPc' = "done"
                            /\ smRet' = smsDelivered(resp)
                            /\ now' = now
                       ELSE /\ smPc' = "wait"
                            /\ smRet' = smRet
                            /\ now' = U32Add(now, 100)
                    /\ UNCHANGED <<smLog, smStart>>
            ELSE /\ smPc' = "done"
                 /\ smRet' = smsDelivered(smResp)
                 /\ UNCHANGED <<now, rx, smLog, smStart, smResp>>
       [] OTHER -> FALSE
  /\ UNCHANGED <<smCmgf, smPrompt, smOut>>

\* the modem's next burst reaches the receive buffer: an error as soon as
\* the header is refused, anything else once the message is submitted
ModemSms ==
  /\ smOut # <<>>
  /\ \/ smPc = "wait"
     \/ smPc = "body" /\ Head(smOut) = ErrorText
  /\ rx' = rx \o Head(smOut)
  /\ smOut' = Tail(smOut)
  /\ UNCHANGED <<now, smPc, smLog, smCmgf, smPrompt, smStart, smResp, smRet>>

(***************************************************************************)
(* Specifications.  Each one runs one part of the sketch and holds the     *)
(* variables of the other parts at rest.                                   *)
(***************************************************************************)
BoardIdle == now = U32(0) /\ rx = <<>>

ParseIdle ==
  /\ gen = CHOOSE g \in GpsInputs : TRUE
  /\ gpsRaw = <<>>
  /\ gps = EmptyGpsData
  /\ parsePc = "idle"

SatIdle ==
  /\ satGen = CHOOSE g \in CgnssInputs : TRUE
  /\ satRaw = <<>>
  /\ satCount = -1
  /\ satPc = "idle"

\* the sketch before loop has run, but for the HTTP session flag
SketchIdleButSession ==
  /\ moduleReady = FALSE /\ smsSentBoot = FALSE /\ smsSentStart = FALSE
  /\ smsSentFix = FALSE
  /\ attempt = 0 /\ fixCount = 0
  /\ lastPollTime = U32Minus(POLL_INTERVAL)
  /\ lastHttpPostTime = U32Minus(HTTP_POST_INTERVAL)
  /\ retryCount = 0
  /\ lastRetryTime = U32Minus(MODULE_RETRY_DELAY)
  /\ probes = 0
  /\ smsCalls = [k \in SmsKinds |-> 0]
  /\ cooldown = [on |-> FALSE, at |-> U32(0)]
  /\ lastTick = NoTick
  /\ lastPass = StartPass

SketchIdle == SketchIdleButSession /\ httpInitialized = FALSE

SmIdle ==
  /\ smPc = "idle" /\ smLog = <<>> /\ smCmgf = <<>> /\ smPrompt = FALSE
  /\ smOut = <<>> /\ smStart = U32(0) /\ smResp = <<>> /\ smRet = FALSE

HcIdle ==
  /\ hcFn = "" /\ hcPc = "idle" /\ hcLog = <<>> /\ hcReplies = <<>>
  /\ hcRet = FALSE

HpIdle ==
  /\ hpPc = "idle" /\ hpStart = U32(0) /\ actionResp = <<>>
  /\ hpResult = FALSE /\ hpStatus = 0 /\ hpUrc = <<>>

AtIdle ==
  /\ atPc = "idle" /\ atTimeout = 0 /\ atStart = U32(0)
  /\ atLastByte = U32(0) /\ atResp = <<>> /\ atResult = <<>>
  /\ atBursts = 0 /\ atEmitAt = U32(0) /\ atStale = <<>>
  /\ atCmd = ""

Rest == <<atVars, hpVars, hcVars, smVars, parseVars, satVars>>

Init ==
  /\ SketchInit /\ AtIdle /\ HpIdle /\ HcIdle /\ ParseIdle /\ SatIdle
  /\ SmIdle
Next ==
  \/ WakeProbeFails(MaxBootProbes - 1, {<<>>}) /\ UNCHANGED Rest
  \/ WakeProbeOK(MaxBootProbes) /\ UNCHANGED Rest
  \/ PollNotDue /\ UNCHANGED Rest
  \/ PollTick /\ UNCHANGED Rest
Spec == Init /\ [][Next]_vars

\* the wake cycle: loop() until the module is ready, and the first polls
\* after it
MaxWakePolls == 1
WakeSpecNext ==
  \/ WakeProbeFails(MaxProbes, {<<>>, ErrorText}) /\ UNCHANGED Rest
  \/ WakeProbeOK(MaxProbes) /\ UNCHANGED Rest
  \/ PollNotDue /\ UNCHANGED Rest
  \/ (attempt < MaxWakePolls /\ PollTick) /\ UNCHANGED Rest
SpecWake == Init /\ [][WakeSpecNext]_vars

\* the sketch with a modem that never answers.  setup() waits up to 3 s for
\* the serial monitor, so loop() starts between 5.5 s and 8.5 s; the core
\* calls loop() again whenever it returns, and every pass returns (sendAT
\* gives up at its timeout), hence the weak fairness
MaxSilentProbes == 30
SerialWaits == {0, 1000, 2000, 3000}
SilentSpecInit ==
  /\ \E w \in SerialWaits : now = U32(w + SETUP_DELAY + POWER_ON_MS)
  /\ rx = <<>>
  /\ SketchIdle /\ AtIdle /\ HpIdle /\ HcIdle /\ ParseIdle /\ SatIdle
  /\ SmIdle
SilentSpecNext ==
  WakeProbeFails(MaxSilentProbes, {<<>>}) /\ UNCHANGED Rest
SpecSilent ==
  SilentSpecInit /\ [][SilentSpecNext]_vars /\ WF_vars(SilentSpecNext)

ParseSpecInit ==
  /\ ParseInit /\ SatIdle /\ BoardIdle /\ SketchIdle /\ AtIdle /\ HpIdle
  /\ HcIdle /\ SmIdle
ParseSpecNext ==
  ParseFix /\ UNCHANGED <<boardVars, sketchVars, runVars, atVars, hpVars,
                          hcVars, smVars, satVars>>
SpecParse == ParseSpecInit /\ [][ParseSpecNext]_vars

SatSpecInit ==
  /\ SatInit /\ ParseIdle /\ BoardIdle /\ SketchIdle /\ AtIdle /\ HpIdle
  /\ HcIdle /\ SmIdle
SatSpecNext ==
  ParseSat /\ UNCHANGED <<boardVars, sketchVars, runVars, atVars, hpVars,
                          hcVars, smVars, parseVars>>
SpecSat == SatSpecInit /\ [][SatSpecNext]_vars

SendATRest ==
  <<sketchVars, runVars, hpVars, hcVars, smVars, parseVars, satVars>>
SendATSpecInit ==
  /\ SendATInit /\ SketchIdle /\ ParseIdle /\ SatIdle /\ HpIdle /\ HcIdle
  /\ SmIdle
SendATSpecNext ==
  \/ SendATCall /\ UNCHANGED SendATRest
  \/ ModemBurst /\ UNCHANGED SendATRest
  \/ SendATLoop /\ UNCHANGED SendATRest
SpecSendAT == SendATSpecInit /\ [][SendATSpecNext]_vars

LinkSpecInit ==
  /\ LinkInit /\ SketchIdle /\ ParseIdle /\ SatIdle /\ HpIdle /\ HcIdle
  /\ SmIdle
LinkSpecNext ==
  \/ SendATCall /\ UNCHANGED SendATRest
  \/ ModemReply /\ UNCHANGED SendATRest
  \/ SendATLoop /\ UNCHANGED SendATRest
  \/ SendATNext /\ UNCHANGED SendATRest
SpecLink == LinkSpecInit /\ [][LinkSpecNext]_vars

HttpWaitRest ==
  <<sketchVars, runVars, atVars, hcVars, smVars, parseVars, satVars>>
HttpWaitSpecInit ==
  /\ HttpWaitInit /\ SketchIdle /\ ParseIdle /\ SatIdle /\ AtIdle /\ HcIdle
  /\ SmIdle
HttpWaitSpecNext ==
  \/ HttpWaitEnter /\ UNCHANGED HttpWaitRest
  \/ ModemUrc /\ UNCHANGED HttpWaitRest
  \/ HttpWaitLoop /\ UNCHANGED HttpWaitRest
SpecHttpWait == HttpWaitSpecInit /\ [][HttpWaitSpecNext]_vars

\* one call of initHTTP or of httpPost
HttpCallRest == <<moduleReady, smsSentBoot, smsSentStart, smsSentFix, attempt,
                  fixCount, lastPollTime, lastHttpPostTime, retryCount,
                  lastRetryTime, runVars, atVars, smVars, parseVars, satVars>>
HttpCallSpecInit ==
  /\ HttpCallInit /\ SketchIdleButSession /\ ParseIdle /\ SatIdle /\ AtIdle
  /\ SmIdle
HttpCallSpecNext ==
  \/ InitHTTPStep /\ UNCHANGED HttpCallRest
  \/ HttpPostStep /\ UNCHANGED HttpCallRest
  \/ HttpWaitEnter /\ UNCHANGED <<HttpCallRest, httpInitialized, hcVars>>
  \/ ModemUrc /\ UNCHANGED <<HttpCallRest, httpInitialized, hcVars>>
  \/ HttpWaitLoop /\ UNCHANGED <<HttpCallRest, httpInitialized, hcVars>>
SpecHttpCall == HttpCallSpecInit /\ [][HttpCallSpecNext]_vars

\* one call of sendSMS
SmsRest == <<sketchVars, runVars, atVars, hpVars, hcVars, parseVars, satVars>>
SmsSpecInit ==
  /\ SmsInit /\ SketchIdle /\ ParseIdle /\ SatIdle /\ AtIdle /\ HpIdle
  /\ HcIdle
SmsSpecNext ==
  \/ SendSMSStep /\ UNCHANGED SmsRest
  \/ ModemSms /\ UNCHANGED SmsRest
SpecSms == SmsSpecInit /\ [][SmsSpecNext]_vars

\* sendAT for the action command, then the wait for its result
ActionRest == <<sketchVars, runVars, hcVars, smVars, parseVars, satVars>>
ActionSpecInit ==
  /\ ActionInit /\ SketchIdle /\ ParseIdle /\ SatIdle /\ HcIdle /\ SmIdle
ActionSpecNext ==
  \/ SendATCall /\ UNCHANGED <<ActionRest, hpVars>>
  \/ ModemAccepts /\ UNCHANGED ActionRest
  \/ ModemResult /\ UNCHANGED ActionRest
  \/ SendATLoop /\ UNCHANGED <<ActionRest, hpVars>>
  \/ ActionReturn /\ UNCHANGED ActionRest
  \/ HttpWaitEnter /\ UNCHANGED <<ActionRest, atVars>>
  \/ HttpWaitLoop /\ UNCHANGED <<ActionRest, atVars>>
SpecAction == ActionSpecInit /\ [][ActionSpecNext]_vars

(***************************************************************************)
(* Claims about the parsers                                                *)
(***************************************************************************)
\* the number of comma-separated fields on the marker's line
FieldsOnLine(g) == IF g.cut > 0 /\ g.cut < g.nFields THEN g.cut ELSE g.nFields

ExpectValid(g) ==
  g.marker /\ FieldsOnLine(g) >= 9 /\ g.lat.coord # NoCoord

\* C6: parseCgpsInfo returns valid = true exactly when the marker is present
\* and its line has at least 9 comma-separated fields of which the first is
\* not empty after trimming; otherwise it returns valid = false with all
\* numbers 0 and date and time empty.
C6_ValidIff ==
  parsePc = "parsed" =>
    /\ gps.valid <=> ExpectValid(gen)
    /\ ~gps.valid => gps = EmptyGpsData

C6_Witness ==
  /\ parsePc = "parsed" /\ gps.valid
  /\ gen.nFields = 9 /\ gen.cut = 0 /\ gen.pad

\* the value of a printed coordinate: d degrees and m.u minutes
DegreesOf(c) == [deg |-> c.d, num |-> c.m * 1000000 + c.u]
Magnitude(x) == [deg |-> x.deg, num |-> x.num]

\* C8: for a latitude or longitude printed as degrees, two minute digits
\* and a minute fraction, the unsigned result is the whole degrees plus the
\* minutes divided by 60 (1015.471638 gives 10 + 15.471638 / 60).
C8_Conversion ==
  parsePc = "parsed" /\ gps.valid =>
    /\ Magnitude(gps.latitude) = DegreesOf(gen.lat.coord)
    /\ gen.lon.coord # NoCoord =>
         Magnitude(gps.longitude) = DegreesOf(gen.lon.coord)

C8_Witness ==
  /\ parsePc = "parsed" /\ gps.valid
  /\ gen.lat.coord = [d |-> 10, m |-> 15, u |-> 471638]
  /\ gps.latitude = [neg |-> FALSE, deg |-> 10, num |-> 15471638]
  /\ gps.longitude.deg = 123 /\ gps.longitude.num = 44234064

\* C9: for a valid fix the latitude is negated exactly when field 1 is "S"
\* and the longitude exactly when field 3 is "W"; any other hemisphere
\* value leaves the sign as converted.
C9_Hemisphere ==
  parsePc = "parsed" /\ gps.valid =>
    /\ gps.latitude.neg <=> gen.ns = <<"S">>
    /\ gps.longitude.neg <=> gen.ew \in {<<"W">>, <<" ", "W">>}

C9_Witness ==
  /\ parsePc = "parsed" /\ gps.valid
  /\ gen.ns = <<"S">> /\ gps.latitude.neg
  /\ gen.ew = <<"E">> /\ ~gps.longitude.neg

ExpectSats(g) ==
  IF ~g.marker \/ g.nFields < 2 THEN -1
  ELSE IF g.mode \in {<<>>, <<" ">>} \/ g.sats.text \in {<<>>, <<" ">>} THEN 0
  ELSE g.sats.val

\* C7: getSatelliteCount returns -1 when the marker is absent or fewer than
\* 2 comma-separated fields follow it, 0 when field 0 or field 1 is empty,
\* and otherwise the integer value of field 1.
C7_SentinelTable == satPc = "parsed" => satCount = ExpectSats(satGen)

C7_Witness ==
  /\ satPc = "parsed" /\ satCount = 7
  /\ satGen.sats.text = <<"7">> /\ satGen.trailer

atElapsed == U32Sub(now, atStart)

\* C10: sendAT returns before its timeout has elapsed only if at least one
\* byte has been received and no byte has arrived for 1500 ms; with zero
\* bytes received it waits the full timeout and returns the empty text.
C10_EndOfResponse ==
  atPc = "done" =>
    /\ U32Less(atElapsed, U32(atTimeout)) =>
         /\ Len(atResp) > 0
         /\ ~U32Less(U32Sub(now, atEmitAt), U32(SILENCE_MS))
    /\ Len(atResp) = 0 =>
         /\ ~U32Less(atElapsed, U32(atTimeout))
         /\ atResult = <<>>

C10_Witness ==
  /\ atPc = "done"
  /\ U32Less(atElapsed, U32(atTimeout))
  /\ atBursts = 2 /\ atResp = <<"\r", "\n", "O", "K">>

\* C32: every call of sendAT has returned by the time its timeout has
\* passed since the read loop started, with the bytes read so far (trimmed),
\* also when the modem goes on sending with gaps shorter than the silence
\* window
C32_SendATTerminates ==
  /\ atPc = "loop" => U32Less(atElapsed, U32(atTimeout)) \/ atElapsed = U32(atTimeout)
  /\ atPc = "done" =>
       /\ ~U32Less(U32(atTimeout), atElapsed)
       /\ atResult = trim(atResp)

\* the modem sent two bursts less than 1500 ms apart, the second less than
\* 1500 ms before the timeout: sendAT returned at the timeout with both
C32_Witness ==
  /\ atPc = "done" /\ atElapsed = U32(atTimeout)
  /\ atBursts = 2 /\ Len(atResp) = 4
  /\ U32Less(U32Sub(now, atEmitAt), U32(SILENCE_MS))

(***************************************************************************)
(* Claims about httpPost                                                   *)
(***************************************************************************)
\* the result marker reached httpPost before its wait ran out
MarkerSeen == indexOf(actionResp, HTTPACTION) # -1

\* C1: once the action is accepted, httpPost returns true if the reported
\* status is 200 or 201, false for any other status and false if no result
\* marker arrives within the wait, however the bytes of the result are
\* split across the reads of the receive buffer.
C1_Classification ==
  hpPc = "done" => (hpResult <=> (MarkerSeen /\ hpStatus \in {200, 201}))

\* the same, for a result that is read whole
C1_WholeResult ==
  hpPc = "done" /\ hpUrc = <<>> /\ rx = <<>> =>
    (hpResult <=> (MarkerSeen /\ hpStatus \in {200, 201}))

(***************************************************************************)
(* The wake cycle and the notifications                                    *)
(***************************************************************************)
\* C2: once MODULE_RETRY_MAX probes in a row went unanswered and the counter
\* was reset, the next probe is issued no earlier than the extended cooldown
\* (8000 ms + MODULE_RETRY_DELAY) after the reset
C2_Cooldown ==
  [][(cooldown.on /\ probes' = probes + 1) =>
       ~U32Less(U32Sub(now, cooldown.at),
                U32(RETRY_COOLDOWN + MODULE_RETRY_DELAY))]_vars

\* C3: the first-fix SMS is sent on the poll tick that counts the first
\* valid fix and on no other step, so exactly once
C3_FirstFixOnce ==
  [][smsCalls'.fix =
       smsCalls.fix + (IF fixCount = 0 /\ fixCount' = 1 THEN 1 ELSE 0)]_vars

\* the first-fix SMS went out once and two more valid fixes followed, with
\* an invalid tick among them
C3_Witness == smsCalls.fix = 1 /\ fixCount = 3 /\ attempt > fixCount

\* C4: the periodic SMS is sent on a valid fix exactly when the fix count,
\* incremented for that fix, is divisible by 5
C4_PeriodicEveryFifth ==
  [][smsCalls'.periodic =
       smsCalls.periodic
         + (IF fixCount' = fixCount + 1 /\ fixCount' % 5 = 0 THEN 1 ELSE 0)]_vars

\* ten valid fixes, the fifth and the tenth with their periodic SMS
C4_Witness == fixCount = 10 /\ smsCalls.periodic = 2

\* C5: at most 3 SMS are attempted in a power cycle, none of them twice
C5_AtMostThree ==
  /\ smsCalls.boot + smsCalls.sat + smsCalls.fix + smsCalls.periodic <= 3
  /\ \A k \in SmsKinds : smsCalls[k] <= 1

(***************************************************************************)
(* sendAT and the link                                                     *)
(***************************************************************************)
\* the text holds the byte
HasByte(text, c) == \E i \in 1..Len(text) : text[i] = c

\* C11: every byte that was unread in the receive buffer when sendAT was
\* invoked is consumed before the command is written: from then on it is
\* neither in the buffer nor in the response, accumulated or returned
C11_StaleDiscarded ==
  atPc \in {"loop", "done"} =>
    \A i \in 1..Len(atStale) : ~HasByte(rx \o atResp \o atResult, atStale[i])

\* a call that found a stale byte and returned the modem's answer
C11_Witness ==
  atPc = "done" /\ atStale = <<"x">> /\ atResult = <<"O", "K">>

\* C12: a command is written to the link only after the exchange of the
\* command before it has ended, by the modem's result having been received
\* or by the wait having run its whole timeout
C12_Sequential ==
  [][(atPc = "done" /\ atPc' = "call") =>
       (hasOK(atResp) \/ ~U32Less(atElapsed, U32(atTimeout)))]_vars

(***************************************************************************)
(* The poll tick                                                           *)
(***************************************************************************)
\* C13: in every poll tick onGpsData, the periodic SMS and httpPost are
\* invoked only when the fix parsed in that tick is valid
C13_InvalidNotForwarded ==
  ~lastTick.valid =>
    lastTick.calls \cap {"onGpsData", "periodicSMS", "httpPost"} = {}

\* a tick without a fix, after ticks with one: nothing was forwarded
C13_Witness ==
  /\ attempt > fixCount /\ fixCount = 5
  /\ ~lastTick.valid /\ lastTick.sats # NotCounted /\ lastTick.calls = {}

\* C14: the one-time flags and the HTTP session flag, once true, stay
\* true: no step sets one of them back to false
C14_FlagsLatch ==
  [][/\ smsSentBoot => smsSentBoot'
     /\ smsSentStart => smsSentStart'
     /\ smsSentFix => smsSentFix'
     /\ httpInitialized => httpInitialized']_vars

\* all four flags are set and a later tick, which posted, has left them so
C14_Witness ==
  /\ smsSentBoot /\ smsSentStart /\ smsSentFix /\ httpInitialized
  /\ fixCount >= 7 /\ "httpPost" \in lastTick.calls
  /\ "initHTTP" \notin lastTick.calls

\* C15: once moduleReady is true it stays true, and no step sends a
\* liveness probe or touches the retry state of tryWakeModule any more
C15_ReadyTerminal ==
  [][moduleReady =>
       /\ moduleReady'
       /\ probes' = probes
       /\ retryCount' = retryCount /\ lastRetryTime' = lastRetryTime]_vars

\* the module is ready and has had a fix; in the last tick the modem gave
\* neither a fix nor a satellite count
C15_Witness ==
  /\ moduleReady /\ probes = 2 /\ attempt >= 3 /\ fixCount >= 1
  /\ ~lastTick.valid /\ lastTick.sats = -1

\* C17: the first-satellite SMS is sent on a poll tick exactly when the
\* tick has no valid fix, its satellite count is positive and the SMS has
\* not been sent before, which sets smsSentStart; a tick with a count of 0
\* or -1 leaves smsSentStart as it is
C17_FirstSatelliteOnce ==
  [][/\ smsCalls'.sat =
          smsCalls.sat
            + (IF /\ attempt' = attempt + 1
                  /\ ~lastTick'.valid /\ lastTick'.sats > 0
                  /\ ~smsSentStart
               THEN 1 ELSE 0)
     /\ smsCalls'.sat > smsCalls.sat => smsSentStart'
     /\ (attempt' = attempt + 1 /\ lastTick'.sats <= 0) =>
          smsSentStart' = smsSentStart]_vars

\* the SMS went out once; ticks without a fix followed, the last of which
\* counted 7 satellites again
C17_Witness ==
  /\ smsCalls.sat = 1 /\ smsSentStart
  /\ fixCount = 0 /\ attempt >= 4
  /\ ~lastTick.valid /\ lastTick.sats = 7

\* C18: a step that starts a poll tick starts it at least POLL_INTERVAL ms
\* after the start of the tick before it and increments attempt by one; no
\* other step changes attempt or the recorded start
C18_PollThrottle ==
  [][(attempt' # attempt \/ lastPollTime' # lastPollTime) =>
       /\ attempt' = attempt + 1
       /\ lastPollTime' = now
       /\ attempt >= 1 =>
            ~U32Less(U32Sub(now, lastPollTime), U32(POLL_INTERVAL))]_vars

\* the third tick: the ticks started at 15500, 20500 and 25500 ms
C18_Witness ==
  /\ attempt = 3 /\ lastPollTime = U32(25500)
  /\ U32Sub(now, lastPollTime) = U32(4000)

(***************************************************************************)
(* tryWakeModule, call by call                                             *)
(***************************************************************************)
\* a difference of two clock values read as a signed 32-bit number is
\* negative: the second time lies ahead of the first
Ahead(d) == d.hi >= Half \div 2

\* MODULE_RETRY_DELAY has elapsed since the recorded retry time
DelayElapsed ==
  LET d == U32Sub(now, lastRetryTime)
  IN ~Ahead(d) /\ ~U32Less(d, U32(MODULE_RETRY_DELAY))

\* C16: a call of tryWakeModule sends at most one probe: exactly one if
\* MODULE_RETRY_DELAY has elapsed since the recorded retry time, and none,
\* changing nothing, otherwise
C16_OneProbeWhenDue ==
  [][~moduleReady =>
       /\ probes' \in {probes, probes + 1}
       /\ probes' = probes + 1 <=> DelayElapsed
       /\ ~DelayElapsed =>
            UNCHANGED <<rx, sketchVars, smsCalls, cooldown, lastTick>>]_vars

(***************************************************************************)
(* The HTTP session flag                                                   *)
(***************************************************************************)
\* C19: called with httpInitialized true, initHTTP returns true, writes no
\* command to the link, takes no time and changes no state
C19_InitIdempotent ==
  [][(hcFn = "initHTTP" /\ hcPc = "call" /\ httpInitialized) =>
       /\ hcPc' = "done" /\ hcRet' = TRUE
       /\ hcLog' = <<>>
       /\ UNCHANGED <<now, rx, sketchVars, hpVars>>]_vars

\* initHTTP has returned true with the flag set and nothing written
C19_Witness ==
  /\ hcFn = "initHTTP" /\ hcPc = "done"
  /\ hcRet /\ httpInitialized /\ hcLog = <<>>

\* C20: called with httpInitialized false, httpPost returns false without
\* writing to the link; whatever httpPost writes, it writes in a state in
\* which httpInitialized is true
C20_PostNeedsSession ==
  [][hcFn = "httpPost" =>
       /\ hcLog' # hcLog => httpInitialized
       /\ (hcPc = "call" /\ ~httpInitialized) =>
            /\ hcPc' = "done" /\ hcRet' = FALSE
            /\ hcLog' = <<>>
            /\ UNCHANGED <<now, rx, sketchVars, hpVars>>]_vars

\* httpPost has returned false without a session and with nothing written
C20_Witness ==
  /\ hcFn = "httpPost" /\ hcPc = "done"
  /\ ~httpInitialized /\ ~hcRet /\ hcLog = <<>>

(***************************************************************************)
(* initHTTP and httpPost, command by command                               *)
(***************************************************************************)
\* the call has written this to the link
Wrote(cmd) == \E i \in 1..Len(hcLog) : hcLog[i] = cmd

\* what the call read in answer to it
ReplyTo(cmd) == hcReplies[CHOOSE i \in 1..Len(hcLog) : hcLog[i] = cmd]

\* C21: httpPost writes the payload only after it has read DOWNLOAD in
\* answer to AT+HTTPDATA; without the token within the 5 s it returns false
\* with no payload written and no AT+HTTPACTION issued
C21_PromptGatesPayload ==
  hcFn = "httpPost" =>
    /\ Wrote("jsonBody") =>
         Wrote("AT+HTTPDATA") /\ indexOf(ReplyTo("AT+HTTPDATA"), DOWNLOAD) # -1
    /\ Wrote("AT+HTTPACTION=1") => Wrote("jsonBody")
    /\ (Wrote("AT+HTTPDATA") /\ indexOf(ReplyTo("AT+HTTPDATA"), DOWNLOAD) = -1) =>
         /\ hcPc = "done" /\ ~hcRet
         /\ ~Wrote("jsonBody") /\ ~Wrote("AT+HTTPACTION=1")

\* the prompt did not come: httpPost is back, 5 s after the two parameter
\* commands (2 s each), with AT+HTTPDATA the last thing written
C21_Witness ==
  /\ hcFn = "httpPost" /\ hcPc = "done" /\ ~hcRet
  /\ Wrote("AT+HTTPDATA")
  /\ hcLog[Len(hcLog)] = "AT+HTTPDATA"
  /\ ReplyTo("AT+HTTPDATA") = ErrorText
  /\ now = U32(60000 + 2000 + 2000 + 5000)

\* C29: unless the answer to AT+CGREG? contains "+CGREG: 0,1" or
\* "+CGREG: 0,5", initHTTP returns false, writes no further command and
\* leaves httpInitialized false
C29_UnregisteredStops ==
  (/\ hcFn = "initHTTP" /\ Wrote("AT+CGREG?")
   /\ indexOf(ReplyTo("AT+CGREG?"), CGREG_HOME) = -1
   /\ indexOf(ReplyTo("AT+CGREG?"), CGREG_ROAMING) = -1) =>
    /\ hcPc = "done" /\ ~hcRet
    /\ hcLog = <<"AT+CGREG?">>
    /\ ~httpInitialized

\* the modem is still searching ("+CGREG: 0,2"): initHTTP is back after the
\* one command
C29_Witness ==
  /\ hcFn = "initHTTP" /\ hcPc = "done" /\ ~hcRet /\ ~httpInitialized
  /\ hcLog = <<"AT+CGREG?">>
  /\ hcReplies = <<CgregPrefix \o <<"2">>>>

\* C30: with registration passed, AT+HTTPTERM is written just before
\* AT+HTTPINIT whatever it answers; initHTTP returns true and sets the flag
\* exactly when the answer to AT+HTTPINIT contains OK and no ERROR, and
\* otherwise returns false with the flag as it was
C30_InitResult ==
  hcFn = "initHTTP" =>
    /\ Wrote("AT+HTTPINIT") =>
         /\ Len(hcLog) >= 2
         /\ hcLog[Len(hcLog)] = "AT+HTTPINIT"
         /\ hcLog[Len(hcLog) - 1] = HTTPTERM
    /\ (/\ hcPc = "done" /\ Wrote("AT+CGREG?")
        /\ \/ indexOf(ReplyTo("AT+CGREG?"), CGREG_HOME) # -1
           \/ indexOf(ReplyTo("AT+CGREG?"), CGREG_ROAMING) # -1) =>
         /\ Wrote("AT+HTTPINIT")
         /\ hcRet <=> /\ indexOf(ReplyTo("AT+HTTPINIT"), OkText) # -1
                      /\ indexOf(ReplyTo("AT+HTTPINIT"), ErrorText) = -1
         /\ httpInitialized <=> hcRet

\* AT+HTTPTERM answered ERROR (no session was open) and AT+HTTPINIT OK
C30_Witness ==
  /\ hcFn = "initHTTP" /\ hcPc = "done" /\ hcRet /\ httpInitialized
  /\ Wrote(HTTPTERM) /\ ReplyTo(HTTPTERM) = ErrorText
  /\ Wrote("AT+HTTPINIT") /\ ReplyTo("AT+HTTPINIT") = OkText

(***************************************************************************)
(* The wake cycle and the link                                             *)
(***************************************************************************)
\* the commands of the last pass, without their tags
LinkCmds == [i \in 1..Len(lastPass.link) |-> lastPass.link[i].cmd]

\* how many times the last pass wrote this command
TimesWritten(cmd) ==
  Cardinality({i \in 1..Len(lastPass.link) : lastPass.link[i].cmd = cmd})

\* C22: with a modem that never answers, the sketch never halts: each probe
\* is followed by another one, moduleReady stays false, and nothing but the
\* probe "AT" is ever written to the link
C22_SilentModemProbedForever ==
  /\ [](~moduleReady /\ \A i \in 1..Len(lastPass.link) :
                          lastPass.link[i].cmd = "AT")
  /\ \A n \in 0..(MaxSilentProbes - 1) : (probes = n) ~> (probes = n + 1)

\* past the first ten probes and the cooldown that follows them, still
\* probing and still not ready
C22_Witness ==
  /\ probes > MODULE_RETRY_MAX /\ ~moduleReady
  /\ retryCount = 1
  /\ LinkCmds = <<"AT">>

\* C24: every command written to the link while moduleReady is false is
\* the probe "AT"
C24_OnlyProbeBeforeReady ==
  \A i \in 1..Len(lastPass.link) :
    ~lastPass.link[i].ready => lastPass.link[i].cmd = "AT"

\* the pass that made the module ready: the probe went out before Ready, the
\* boot SMS, the GNSS power command and the first HTTP command after it
C24_Witness ==
  /\ moduleReady /\ attempt = 0
  /\ Len(lastPass.link) > 6
  /\ lastPass.link[1] = [cmd |-> "AT", ready |-> FALSE]
  /\ lastPass.link[2] = [cmd |-> "AT+CMGF=1", ready |-> TRUE]
  /\ \E i \in 1..Len(lastPass.link) : lastPass.link[i].cmd = "AT+CGNSSPWR=1"
  /\ \E i \in 1..Len(lastPass.link) : lastPass.link[i].cmd = "AT+CGREG?"

\* C26: the pass whose probe is answered with OK sets moduleReady, calls
\* sendSMS for the boot notification once, then writes AT+CGNSSPWR=1 exactly
\* once; if that command fails moduleReady is still true and the next pass
\* of loop() is a poll
C26_ReadySequence ==
  [][/\ (~moduleReady /\ moduleReady') =>
          /\ smsCalls'.boot = 1 /\ smsSentBoot'
          /\ TimesWritten("AT+CGNSSPWR=1")' = 1
          /\ TimesWritten("AT+CMGF=1")' = 1
          /\ \A i, j \in 1..Len(lastPass'.link) :
               (/\ lastPass'.link[i].cmd = "AT+CMGF=1"
                /\ lastPass'.link[j].cmd = "AT+CGNSSPWR=1") => i < j
     /\ (moduleReady /\ lastPass.gnss # NoReply /\ ~hasOK(lastPass.gnss)) =>
          /\ moduleReady'
          /\ probes' = probes
          /\ \/ attempt' = attempt + 1 /\ lastPass'.link[1].cmd = "AT+CGPSINFO"
             \/ UNCHANGED <<sketchVars, runVars>>]_vars

\* GNSS power was refused, the module is ready all the same
C26_Witness ==
  /\ moduleReady /\ attempt = 0 /\ smsCalls.boot = 1
  /\ lastPass.gnss = ErrorText
  /\ TimesWritten("AT+CGNSSPWR=1") = 1

\* C27: PWRKEY is pulsed at startup and in a pass whose probe failed as
\* attempt 3, 6 or 9 of its cycle, and in no other pass; never once
\* moduleReady is true
C27_PulseOnlyOnThirdFailure ==
  /\ lastPass.pulse =>
       /\ ~moduleReady
       /\ \/ probes = 0
          \/ LinkCmds = <<"AT">> /\ retryCount \in {3, 6, 9}
  /\ moduleReady => ~lastPass.pulse

\* the third failed probe of the second cycle has pulsed PWRKEY
C27_Witness ==
  /\ lastPass.pulse /\ ~moduleReady
  /\ probes = MODULE_RETRY_MAX + 3 /\ retryCount = 3

(***************************************************************************)
(* sendSMS                                                                 *)
(***************************************************************************)
\* the commands of the call, without their times
SmsCmds == [i \in 1..Len(smLog) |-> smLog[i].cmd]

\* in the text read during the wait, the success token comes before any
\* error token
SuccessFirst ==
  /\ indexOf(smResp, CMGS) # -1
  /\ \/ indexOf(smResp, ErrorText) = -1
     \/ indexOf(smResp, CMGS) < indexOf(smResp, ErrorText)

\* C23: with the message and Ctrl+Z written, sendSMS waits at most 10 s and
\* returns true exactly when "+CMGS:" has been read before any "ERROR" and
\* before the wait ran out
C23_SmsOutcome ==
  (smPc = "done" /\ Len(smLog) = 4) =>
    /\ ~U32Less(U32(SMS_RESULT_WAIT), U32Sub(now, smStart))
    /\ smRet <=> SuccessFirst

\* the same, for a wait that has not read both tokens in one pass
C23_OneTokenRead ==
  (/\ smPc = "done" /\ Len(smLog) = 4
   /\ ~(indexOf(smResp, CMGS) # -1 /\ indexOf(smResp, ErrorText) # -1)) =>
    /\ ~U32Less(U32(SMS_RESULT_WAIT), U32Sub(now, smStart))
    /\ smRet <=> SuccessFirst

\* C28: if AT+CMGF=1 is not answered with OK, sendSMS returns false having
\* written nothing else; otherwise the message and Ctrl+Z are written 2 s
\* after the header, whether the modem has sent its prompt or not
C28_TextModeGate ==
  /\ (smPc = "done" /\ ~hasOK(smCmgf)) =>
       ~smRet /\ SmsCmds = <<"AT+CMGF=1">>
  /\ Len(smLog) > 1 =>
       /\ hasOK(smCmgf)
       /\ smLog[2].cmd = "AT+CMGS"
       /\ smPc # "body" =>
            /\ SmsCmds = <<"AT+CMGF=1", "AT+CMGS", "message", "Ctrl-Z">>
            /\ smLog[3].at = U32Add(smLog[2].at, SMS_SETTLE_MS)
            /\ smLog[4].at = smLog[3].at

\* the message went out although no prompt had come
C28_Witness ==
  /\ ~smPrompt /\ hasOK(smCmgf)
  /\ SmsCmds = <<"AT+CMGF=1", "AT+CMGS", "message", "Ctrl-Z">>
  /\ smPc = "done"

C25_LateResult ==
  (hpPc = "done" /\ hpUrc = <<>> /\ rx = <<>>
     /\ indexOf(atResp, HTTPACTION) = -1) => MarkerSeen

(***************************************************************************)
(* The periodic post and the one-time notifications                        *)
(***************************************************************************)
\* the step is a poll tick that went to the HTTP branch
PostAttempted ==
  /\ attempt' = attempt + 1
  /\ lastTick'.calls \cap {"initHTTP", "httpPost"} # {}

\* C31: a tick posts, or re-attempts initHTTP, only with a valid fix and
\* only HTTP_POST_INTERVAL ms or more after the attempt before it; initHTTP
\* is re-attempted exactly when the session is not ready, and if it fails
\* the post is skipped while the tick has counted its fix and called
\* onGpsData
C31_PeriodicPost ==
  [][/\ PostAttempted =>
          /\ lastTick'.valid
          /\ lastHttpPostTime' # lastHttpPostTime
          /\ ~U32Less(U32Sub(lastHttpPostTime', lastHttpPostTime),
                      U32(HTTP_POST_INTERVAL))
          /\ "initHTTP" \in lastTick'.calls <=> ~httpInitialized
          /\ "httpPost" \in lastTick'.calls <=> httpInitialized'
          /\ "onGpsData" \in lastTick'.calls
          /\ fixCount' = fixCount + 1
     /\ (attempt' = attempt + 1 /\ ~PostAttempted) =>
          lastHttpPostTime' = lastHttpPostTime]_vars

\* initHTTP failed at the wake and again at a first post attempt; a later
\* tick has re-attempted it, failed again and skipped the post
C31_Witness ==
  /\ lastTick.valid /\ fixCount >= 7
  /\ "initHTTP" \in lastTick.calls /\ "httpPost" \notin lastTick.calls
  /\ "onGpsData" \in lastTick.calls
  /\ ~httpInitialized

\* the last pass called sendSMS and the call failed at AT+CMGF=1
SmsFailedInLastPass ==
  /\ \E i \in 1..Len(lastPass.link) : lastPass.link[i].cmd = "AT+CMGF=1"
  /\ \A i \in 1..Len(lastPass.link) : lastPass.link[i].cmd # "AT+CMGS"

\* C33: each one-time notification is attempted at most once, delivered or
\* not: the step that calls sendSMS for it sets its flag whatever the call
\* returns, and with the flag set no step calls sendSMS for it again
C33_NoRetry ==
  [][/\ smsCalls'.boot # smsCalls.boot =>
          ~smsSentBoot /\ smsSentBoot' /\ smsCalls'.boot = 1
     /\ smsCalls'.sat # smsCalls.sat =>
          ~smsSentStart /\ smsSentStart' /\ smsCalls'.sat = 1
     /\ smsCalls'.fix # smsCalls.fix =>
          ~smsSentFix /\ smsSentFix' /\ smsCalls'.fix = 1
     /\ smsSentBoot => smsCalls'.boot = smsCalls.boot
     /\ smsSentStart => smsCalls'.sat = smsCalls.sat
     /\ smsSentFix => smsCalls'.fix = smsCalls.fix]_vars

\* the first-fix SMS has just failed at AT+CMGF=1, after the boot and the
\* first-satellite SMS: all three flags are set, each SMS was tried once
C33_Witness ==
  /\ SmsFailedInLastPass
  /\ lastTick.valid /\ fixCount = 1
  /\ smsSentBoot /\ smsSentStart /\ smsSentFix
  /\ smsCalls.boot = 1 /\ smsCalls.sat = 1 /\ smsCalls.fix = 1

\* C34: the one-time notifications are attempted in the order boot, first
\* satellite, first fix: no step attempts the first-satellite or first-fix
\* SMS unless the boot SMS has been attempted, and no step attempts the
\* first-satellite SMS once the first-fix SMS has been attempted
C34_NotificationOrder ==
  [][/\ (smsCalls'.sat + smsCalls'.fix > 0) => smsCalls'.boot = 1
     /\ smsCalls'.sat # smsCalls.sat => smsCalls.fix = 0]_vars

\* the boot SMS comes before the two others in every run
C34_BootFirst ==
  (smsCalls.sat + smsCalls.fix > 0) => smsCalls.boot = 1

====
